---- MODULE Spec2Model ----
(***************************************************************************)
(* Model of the bulk Copilot-agent MCP configurator: the configuration     *)
(* merger (mergeMCPConfig), the API channel's endpoint probing, the        *)
(* UI-automation channel and the configuration engine that drives them     *)
(* over the resolved repositories in batches.                              *)
(*                                                                         *)
(* A JavaScript object is modelled as the sequence of its own <<key,       *)
(* value>> entries in insertion order, because JSON.stringify, Object      *)
(* .entries and the spread operator all observe that order.                *)
(***************************************************************************)
EXTENDS Integers, Sequences, FiniteSets, TLC

VARIABLES
    opts,          \* ConfigurationOptions of the run
    mcpConfig,     \* the incoming MCP configuration (parsed and validated)
    secretsConfig, \* the processed SecretsConfig
    repositories,  \* the resolved repositories, in resolution order
    phase,         \* position of ConfigurationEngine.configure
    batchStart,    \* loop variable i of processRepositories
    pipe,          \* per position of `repositories`: the processRepository call
    results,       \* results array of processRepositories
    summary,       \* <<the OperationSummary configure returned>>, <<>> before it returns
    remote,        \* per repository: what the platform stores (MCP, secrets, variables)
    browser,       \* the engine's BrowserAutomator and the browsers it launched
    m,             \* harness that applies mergeMCPConfig to drawn inputs
    win,           \* the run of windows/configure-copilot.ps1
    ui,            \* harness that writes and then reads one settings page with a BrowserAutomator
    au,            \* the run of windows/autoit/github-copilot-config.au3 on one settings page
    cli,           \* the configure command: its position, policy flags and exit code
    repoConfig,    \* the parsed repository configuration file
    listed         \* whether the GitHub CLI was asked to list or view repositories

vars == <<opts, mcpConfig, secretsConfig, repositories, phase, batchStart,
          pipe, results, summary, remote, browser, m, win, ui, au, cli, repoConfig, listed>>

engineVars == <<opts, mcpConfig, secretsConfig, repositories, phase, batchStart,
                pipe, results, summary, remote, browser, cli, repoConfig, listed>>

NULL == "null"

-----------------------------------------------------------------------------
(* Bounds *)

\* largest number of servers in a configuration drawn for the merge harness
MaxServers == 2
\* largest number of resolved repositories in a run
MaxRepos == 2
\* length of the endpoint x accept-header list probed by the API read
ReadCombos == 2
\* length of the endpoint x accept-header x payload list probed by the API update
UpdateCombos == 2
\* largest value drawn for the -MaxRetries parameter of configure-copilot.ps1
MaxRetriesLimit == 2
\* largest number of resolved repositories in a run that starts at the batch loop
MaxBatchRepos == 3
\* largest batch size (concurrency) in a run that starts at the batch loop
MaxConcurrency == 2
\* longest explicit repository list drawn for a dry run
MaxListLen == 3

-----------------------------------------------------------------------------
(* Data model: MCPConfig, MCPServerConfig, MergeStrategy *)

SKIP == "skip"
MERGE == "merge"
MERGE_OVERWRITE == "merge_overwrite"
FORCE_OVERWRITE == "force_overwrite"
MergeStrategy == {SKIP, MERGE, MERGE_OVERWRITE, FORCE_OVERWRITE}

\* Property names every plain object inherits from Object.prototype: reading
\* obj[name] for one of them yields a (truthy) inherited value when obj has no
\* own entry of that name.
ObjectPrototypeNames == {"constructor", "toString", "valueOf", "hasOwnProperty", "__proto__"}

ServerNames == {"A", "B", "constructor"}

\* server entries; each is the sequence of its own fields in insertion order
httpX == << <<"type", "http">>, <<"url", "https://x">>, <<"tools", "[t1]">> >>
localNpx == << <<"type", "local">>, <<"command", "npx">>, <<"tools", "[]">> >>
localNpxReordered == << <<"command", "npx">>, <<"tools", "[]">>, <<"type", "local">> >>
localNoCommand == << <<"type", "local">>, <<"tools", "[]">> >>
httpNoUrl == << <<"type", "http">>, <<"tools", "[]">> >>

Range(s) == {s[k] : k \in DOMAIN s}

Keys(obj) == {obj[k][1] : k \in DOMAIN obj}

HasOwn(obj, key) == key \in Keys(obj)

\* obj[key] for an own key
OwnValue(obj, key) == obj[CHOOSE k \in DOMAIN obj : obj[k][1] = key][2]

\* Truthiness of the JavaScript expression obj[key], obj a plain object whose
\* own values are objects or non-empty strings
LookupTruthy(obj, key) == HasOwn(obj, key) \/ key \in ObjectPrototypeNames

\* obj[key] = value : replaces the value of an own key in place, appends a new key
SetKey(obj, key, value) ==
    IF HasOwn(obj, key)
    THEN [k \in DOMAIN obj |-> IF obj[k][1] = key THEN <<key, value>> ELSE obj[k]]
    ELSE Append(obj, <<key, value>>)

\* { ...a, ...b } : a's entries, then b's entries assigned one by one
RECURSIVE Spread(_, _)
Spread(a, b) ==
    IF b = <<>> THEN a
    ELSE Spread(SetKey(a, Head(b)[1], Head(b)[2]), Tail(b))

\* all objects with at most n distinct keys from K and values from V
RECURSIVE ObjectsUpTo(_, _, _)
ObjectsUpTo(n, K, V) ==
    IF n = 0 THEN {<<>>}
    ELSE LET smaller == ObjectsUpTo(n - 1, K, V)
         IN  smaller \cup
             UNION {{Append(o, <<k, v>>) : k \in K \ Keys(o), v \in V} :
                    o \in {x \in smaller : Len(x) = n - 1}}

\* an MCPConfig object, and the null of "MCPConfig | null"
Config(obj) == [isNull |-> FALSE, mcpServers |-> obj]
NullConfig == [isNull |-> TRUE, mcpServers |-> <<>>]
IsNull(c) == c.isNull

\* the server entries the merge harness draws from: two valid ones and an
\* http server without url, which validateMCPConfig rejects
HarnessServers == {httpX, localNpx, httpNoUrl}

HarnessConfigs == {Config(o) : o \in ObjectsUpTo(MaxServers, ServerNames, HarnessServers)}

\* value of a field of a server entry, "undefined" when it has no such field
Field(server, key) == IF HasOwn(server, key) THEN OwnValue(server, key) ELSE "undefined"

IsArrayToken(v) == v \in {"[]", "[t1]"}

\* no check of the servers: every configuration object passes
validateAcceptsAll(config) == TRUE

\* ConfigParser.validateMCPConfig: TRUE when it returns, FALSE when it throws
validateMCPConfig(config) ==
    \A k \in DOMAIN config.mcpServers :
        LET serverConfig == config.mcpServers[k][2]
        IN  /\ Field(serverConfig, "type") \in {"http", "local"}
            /\ IsArrayToken(Field(serverConfig, "tools"))
            /\ Field(serverConfig, "type") = "http" => Field(serverConfig, "url") # "undefined"
            /\ Field(serverConfig, "type") = "local" => Field(serverConfig, "command") # "undefined"

-----------------------------------------------------------------------------
(* JSON.stringify and structural equality *)

RECURSIVE Flatten(_)
Flatten(ss) == IF ss = <<>> THEN <<>> ELSE Head(ss) \o Flatten(Tail(ss))

\* JSON.stringify of a server entry: its fields in insertion order
StringifyServer(server) ==
    <<"{">> \o Flatten([k \in DOMAIN server |-> <<server[k][1], ":", server[k][2], ",">>]) \o <<"}">>

\* JSON.stringify(config), as the sequence of its tokens: own keys in insertion order
Stringify(config) ==
    IF IsNull(config) THEN <<"null">>
    ELSE <<"{", "mcpServers", ":", "{">> \o
         Flatten([k \in DOMAIN config.mcpServers |->
                    <<config.mcpServers[k][1], ":">> \o
                    StringifyServer(config.mcpServers[k][2]) \o <<",">>]) \o
         <<"}", "}">>

\* the mapping an object denotes, key order forgotten
AsMap(obj) == Range(obj)

\* server by server, field by field equality, regardless of key order
StructEq(a, b) ==
    IF IsNull(a) \/ IsNull(b) THEN IsNull(a) /\ IsNull(b)
    ELSE /\ Keys(a.mcpServers) = Keys(b.mcpServers)
         /\ \A n \in Keys(a.mcpServers) :
                AsMap(OwnValue(a.mcpServers, n)) = AsMap(OwnValue(b.mcpServers, n))

-----------------------------------------------------------------------------
(* mergeMCPConfig *)

\* stands for the Error thrown in the default case of the switch
ThrownUnknownStrategy == [isNull |-> TRUE, mcpServers |-> <<>>, threw |-> TRUE]

\* the loop of the MERGE case: for each [serverName, serverConfig] of
\* newConfig.mcpServers, in order, assign it when !merged.mcpServers[serverName]
RECURSIVE MergeKeepLoop(_, _)
MergeKeepLoop(merged, entries) ==
    IF entries = <<>> THEN merged
    ELSE LET serverName == Head(entries)[1]
             serverConfig == Head(entries)[2]
         IN  MergeKeepLoop(IF ~LookupTruthy(merged, serverName)
                           THEN SetKey(merged, serverName, serverConfig)
                           ELSE merged,
                           Tail(entries))

\* The merge with one case changed, as a slip in that case would change it.
MergeCases(existing, newConfig, strategy, overwriteResult, forceResult, absentResult, skipTest) ==
    CASE strategy = SKIP ->
            IF skipTest THEN existing ELSE newConfig
      [] strategy = MERGE ->
            IF IsNull(existing) THEN absentResult
            ELSE Config(MergeKeepLoop(Spread(<<>>, existing.mcpServers), newConfig.mcpServers))
      [] strategy = MERGE_OVERWRITE ->
            IF IsNull(existing) THEN newConfig ELSE overwriteResult
      [] strategy = FORCE_OVERWRITE -> forceResult
      [] OTHER -> ThrownUnknownStrategy

\* MERGE_OVERWRITE spreads the two maps in the wrong order: existing wins
mergeOverwriteSwapped(existing, newConfig, strategy) ==
    MergeCases(existing, newConfig, strategy,
               Config(Spread(Spread(<<>>, newConfig.mcpServers), existing.mcpServers)),
               newConfig, newConfig, ~IsNull(existing))

\* FORCE_OVERWRITE falls through to the merge: servers of existing survive
mergeForceMerges(existing, newConfig, strategy) ==
    MergeCases(existing, newConfig, strategy,
               Config(Spread(Spread(<<>>, existing.mcpServers), newConfig.mcpServers)),
               IF IsNull(existing) THEN newConfig
               ELSE Config(Spread(Spread(<<>>, existing.mcpServers), newConfig.mcpServers)),
               newConfig, ~IsNull(existing))

\* MERGE with no existing configuration starts from an empty map and keeps it
mergeAbsentEmpty(existing, newConfig, strategy) ==
    MergeCases(existing, newConfig, strategy,
               Config(Spread(Spread(<<>>, existing.mcpServers), newConfig.mcpServers)),
               newConfig, Config(<<>>), ~IsNull(existing))

\* SKIP tests for a non-empty server map instead of a present configuration
mergeSkipTestsServers(existing, newConfig, strategy) ==
    MergeCases(existing, newConfig, strategy,
               Config(Spread(Spread(<<>>, existing.mcpServers), newConfig.mcpServers)),
               newConfig, newConfig, ~IsNull(existing) /\ Len(existing.mcpServers) > 0)

\* BrowserAutomator.mergeMCPConfig
mergeMCPConfig(existing, newConfig, strategy) ==
    CASE strategy = SKIP ->
            IF ~IsNull(existing) THEN existing ELSE newConfig
      [] strategy = MERGE ->
            IF IsNull(existing) THEN newConfig
            ELSE Config(MergeKeepLoop(Spread(<<>>, existing.mcpServers), newConfig.mcpServers))
      [] strategy = MERGE_OVERWRITE ->
            IF IsNull(existing) THEN newConfig
            ELSE Config(Spread(Spread(<<>>, existing.mcpServers), newConfig.mcpServers))
      [] strategy = FORCE_OVERWRITE -> newConfig
      [] OTHER -> ThrownUnknownStrategy

\* GitHubAPIAutomator.mergeMCPConfig
apiMergeMCPConfig(existing, newConfig, strategy) ==
    CASE strategy = SKIP ->
            IF ~IsNull(existing) THEN existing ELSE newConfig
      [] strategy = MERGE ->
            IF IsNull(existing) THEN newConfig
            ELSE Config(MergeKeepLoop(Spread(<<>>, existing.mcpServers), newConfig.mcpServers))
      [] strategy = MERGE_OVERWRITE ->
            IF IsNull(existing) THEN newConfig
            ELSE Config(Spread(Spread(<<>>, existing.mcpServers), newConfig.mcpServers))
      [] strategy = FORCE_OVERWRITE -> newConfig
      [] OTHER -> ThrownUnknownStrategy

-----------------------------------------------------------------------------
(* Merge harness: draws (existing, incoming, strategy) and applies the merge *)

HarnessIdle == [pc |-> "idle", existing |-> NullConfig, newConfig |-> NullConfig,
                strategy |-> SKIP, result |-> NullConfig, by |-> NULL,
                readBack |-> "none", twice |-> NullConfig, rewrite |-> FALSE]

\* "Skip update if configuration would be identical" of processRepository and
\* of configureRepository
NoChangesNeeded(existingConfig, finalConfig) ==
    ~IsNull(existingConfig) /\ Stringify(existingConfig) = Stringify(finalConfig)

\* what readMCPConfig returns in a run that follows a successful one: the
\* stored configuration, or for the API channel null when no combination of
\* endpoint and accept header answered
ReadBacks(by) == IF by = "api" THEN {"stored", "null"} ELSE {"stored"}

\* the merge test calls automator.mergeMCPConfig(existing, newConfig, strategy)
HarnessBrowserMerge ==
    /\ m.pc = "drawn"
    /\ m' = [m EXCEPT !.pc = "merged", !.by = "browser",
                      !.result = mergeMCPConfig(m.existing, m.newConfig, m.strategy)]
    /\ UNCHANGED <<engineVars, win, ui, au>>

\* the engine calls this.apiAutomator.mergeMCPConfig(existingConfig, mcpConfig, mergeStrategy)
HarnessApiMerge ==
    /\ m.pc = "drawn"
    /\ m' = [m EXCEPT !.pc = "merged", !.by = "api",
                      !.result = apiMergeMCPConfig(m.existing, m.newConfig, m.strategy)]
    /\ UNCHANGED <<engineVars, win, ui, au>>

\* a second run with the same incoming configuration and strategy, after the
\* first one left m.result on the platform: readMCPConfig, the merge, and the
\* test that decides whether updateMCPConfig is called
HarnessSecondRun ==
    /\ m.pc = "merged"
    /\ \E readBack \in ReadBacks(m.by) :
        LET existingConfig == IF readBack = "stored" THEN m.result ELSE NullConfig
            finalConfig == IF m.by = "api"
                           THEN apiMergeMCPConfig(existingConfig, m.newConfig, m.strategy)
                           ELSE mergeMCPConfig(existingConfig, m.newConfig, m.strategy)
        IN  m' = [m EXCEPT !.pc = "rerun", !.readBack = readBack, !.twice = finalConfig,
                           !.rewrite = ~NoChangesNeeded(existingConfig, finalConfig)]
    /\ UNCHANGED <<engineVars, win, ui, au>>

-----------------------------------------------------------------------------
(* The configuration engine: inputs of a run *)

\* configurations of the runs: the incoming {"github": http} and the stored
\* {"other": local npx} of the end-to-end scenario, the latter also with the
\* fields of its server in another order, and an http server without url
cfgGithub == Config(<< <<"github", httpX>> >>)
cfgOther == Config(<< <<"other", localNpx>> >>)
cfgOtherReordered == Config(<< <<"other", localNpxReordered>> >>)
cfgInvalid == Config(<< <<"github", httpNoUrl>> >>)
\* a configuration with a local server without command
cfgInvalidLocal == Config(<< <<"github", localNoCommand>> >>)

IncomingConfigs == {cfgGithub, cfgOtherReordered, cfgInvalid, cfgInvalidLocal}
\* what the platform stores for repository r when the run starts: as in the
\* end-to-end scenario, the first repository has no configuration and the second
\* has {"other": local npx}, and so on alternately
StoredAt(r) == IF r % 2 = 0 THEN cfgOther ELSE NullConfig

Repos == 1..MaxRepos

\* the repositories `gh repo view` answers for: those of the longest run, all
\* administered by the viewer, and repository 0, which the viewer cannot
\* administer; any other name (-1 in the lists drawn) makes the command fail
LastRepo == IF MaxRepos > MaxBatchRepos THEN MaxRepos ELSE MaxBatchRepos
PlatformRepos == 0..LastRepo
Resolves(name) == name \in PlatformRepos
viewerCanAdminister(r) == r \in 1..LastRepo
\* repositoryTopics of a repository, and whether `gh repo list --source` omits it
RepoTopics(r) == IF r % 2 = 1 THEN {"mcp"} ELSE {}
IsFork(r) == r = 2

\* `present` is FALSE when no secrets file is given (secretsConfig undefined)
SecretsConfigs == {[present |-> FALSE, secrets |-> <<>>, variables |-> <<>>],
                   [present |-> TRUE, secrets |-> <<"S1">>, variables |-> <<"V1">>],
                   [present |-> TRUE, secrets |-> <<"S1", "S2">>, variables |-> <<>>]}

\* the merge-policy flags the configure command accepts (part of ConfigurationOptions)
Flags == [skipExisting : BOOLEAN, merge : BOOLEAN, mergeOverwrite : BOOLEAN,
          forceOverwrite : BOOLEAN]

\* the configure action's check of mutually exclusive options: TRUE when it passes
cliFlagsAccepted(options) ==
    /\ ~(options.forceOverwrite /\ (options.merge \/ options.skipExisting))
    /\ ~(options.mergeOverwrite /\ ~options.merge)

\* ConfigurationEngine.determineMergeStrategy
determineMergeStrategy(options) ==
    IF options.forceOverwrite THEN FORCE_OVERWRITE
    ELSE IF options.merge /\ options.mergeOverwrite THEN MERGE_OVERWRITE
    ELSE IF options.merge THEN MERGE
    ELSE IF options.skipExisting THEN SKIP
    ELSE SKIP

NoFlags == [skipExisting |-> FALSE, merge |-> FALSE, mergeOverwrite |-> FALSE,
            forceOverwrite |-> FALSE]

\* values of --concurrency, and parseInt(options.concurrency, 10) of each:
\* <<the number>>, or <<>> for NaN
ConcurrencyArgs == {"1", "2", "2.5", "0", "abc"}
parseInt(arg) ==
    CASE arg = "1" -> <<1>>
      [] arg = "2" -> <<2>>
      [] arg = "2.5" -> <<2>>
      [] arg = "0" -> <<0>>
      [] OTHER -> <<>>

\* the configure action's check of the parsed concurrency: TRUE when it passes
concurrencyAccepted(arg) == parseInt(arg) # <<>> /\ parseInt(arg)[1] >= 1

\* the configure command before it runs, and when another program runs
CliInit == [pc |-> "start", flags |-> NoFlags, exitCode |-> -1]
CliIdle == [pc |-> "idle", flags |-> NoFlags, exitCode |-> -1]

-----------------------------------------------------------------------------
(* Repository selection: RepoConfig, GitHubCLI *)

\* RepoFilters; a pattern is <<>> for "*" and <<r>> for the full name of r
NoFilters == [owner_only |-> FALSE, topics |-> {}, exclude |-> {}, patterns |-> {}]
FilterSets == [owner_only : BOOLEAN, topics : {{}, {"mcp"}}, exclude : {{}, {1}},
               patterns : {{}, {<<>>}, {<<1>>}}]

\* RepoConfig: `repositories` (when the key is present) or all_accessible_repos
ListConfig(list) == [hasRepositories |-> TRUE, repositories |-> list,
                     all_accessible_repos |-> FALSE, filters |-> NoFilters]
AllConfig(filters) == [hasRepositories |-> FALSE, repositories |-> <<>>,
                       all_accessible_repos |-> TRUE, filters |-> filters]
NoRepoConfig == [hasRepositories |-> FALSE, repositories |-> <<>>,
                 all_accessible_repos |-> FALSE, filters |-> NoFilters]
BothConfig == [hasRepositories |-> TRUE, repositories |-> <<1>>,
               all_accessible_repos |-> TRUE, filters |-> NoFilters]

\* ConfigParser.validateRepoConfig: TRUE when it does not throw
validateRepoConfig(config) ==
    /\ config.hasRepositories \/ config.all_accessible_repos
    /\ ~(config.hasRepositories /\ config.all_accessible_repos)

\* the list without the test of viewerCanAdminister: every entry that resolves is pushed
RECURSIVE getRepositoriesFromListAnyAccess(_)
getRepositoriesFromListAnyAccess(repoList) ==
    IF repoList = <<>> THEN <<>>
    ELSE LET repoName == Head(repoList)
             rest == getRepositoriesFromListAnyAccess(Tail(repoList))
         IN  IF ~Resolves(repoName) THEN rest ELSE <<repoName>> \o rest

\* GitHubCLI.getRepositoriesFromList: `gh repo view` per entry; an entry that
\* fails to resolve is logged and dropped, one without admin access is skipped,
\* every other entry is pushed
RECURSIVE getRepositoriesFromList(_)
getRepositoriesFromList(repoList) ==
    IF repoList = <<>> THEN <<>>
    ELSE LET repoName == Head(repoList)
             rest == getRepositoriesFromList(Tail(repoList))
         IN  IF ~Resolves(repoName) THEN rest
             ELSE IF ~viewerCanAdminister(repoName) THEN rest
             ELSE <<repoName>> \o rest

\* the output of `gh repo list`: the account's repositories, forks left out with --source
GhRepoList(ownerOnly) ==
    LET listedBy(r) == ~(ownerOnly /\ IsFork(r))
    IN  SelectSeq([i \in 1..(MaxRepos + 1) |-> i - 1], listedBy)

\* new RegExp(pattern.replace('*', '.*')).test(repo.fullName)
PatternMatches(pattern, r) == pattern = <<>> \/ pattern = <<r>>

\* GitHubCLI.listUserRepositories: the topics, exclude and patterns filters, then
\* the filter to repositories with admin access
listUserRepositories(filters) ==
    LET hasTopic(r) == filters.topics \cap RepoTopics(r) # {}
        notExcluded(r) == r \notin filters.exclude
        matches(r) == \E pattern \in filters.patterns : PatternMatches(pattern, r)
        repos == GhRepoList(filters.owner_only)
        byTopics == IF filters.topics # {} THEN SelectSeq(repos, hasTopic) ELSE repos
        byExclude == IF filters.exclude # {} THEN SelectSeq(byTopics, notExcluded)
                     ELSE byTopics
        byPatterns == IF filters.patterns # {} THEN SelectSeq(byExclude, matches)
                      ELSE byExclude
    IN  SelectSeq(byPatterns, viewerCanAdminister)

\* ConfigurationEngine.discoverRepositories
discoverRepositories(config) ==
    IF config.hasRepositories THEN getRepositoriesFromList(config.repositories)
    ELSE listUserRepositories(config.filters)

\* all sequences over S of length at most n
RECURSIVE SeqsUpTo(_, _)
SeqsUpTo(n, S) ==
    IF n = 0 THEN {<<>>}
    ELSE LET shorter == SeqsUpTo(n - 1, S)
         IN  shorter \cup {Append(l, x) : l \in {k \in shorter : Len(k) = n - 1}, x \in S}

\* repository files of the runs. An apply run takes the explicit lists 1..n,
\* the list ["1", "1", "0"] (a repeated entry, and a repository without admin
\* access) and the listing of all accessible repositories; a dry run takes any
\* list over an unknown name, repository 0 and repositories 1 and 2, and the
\* listing under any filters. Files with neither or both keys are invalid.
ListNames == (-1)..2
ApplyRepoConfigs ==
    {ListConfig([i \in 1..n |-> i]) : n \in 0..(MaxRepos - 1)}
    \cup {ListConfig(<<1, 1, 0>>), AllConfig(NoFilters), NoRepoConfig, BothConfig}
DryRunRepoConfigs ==
    {ListConfig(l) : l \in SeqsUpTo(MaxListLen, ListNames)}
    \cup {AllConfig(f) : f \in FilterSets} \cup {NoRepoConfig, BothConfig}
RepoConfigsFor(dryRun) == IF dryRun THEN DryRunRepoConfigs ELSE ApplyRepoConfigs

\* result.changes.secrets / .variables: not assigned, or { added, updated: [] }
Unset == [set |-> FALSE, added |-> <<>>]
Added(names) == [set |-> TRUE, added |-> names]

\* one processRepository call before it starts
PipeInit == [pc |-> "Pending",
             attempts |-> 0,          \* number of processRepository calls made
             idx |-> 0,               \* position in the loop the call is in
             existingConfig |-> NullConfig, finalConfig |-> NullConfig,
             apiReadExhausted |-> FALSE, \* readMCPConfig returned null after its loops
             success |-> FALSE, error |-> NULL,
             mcpBy |-> NULL,          \* channel that produced result.changes.mcpConfig
             secretsAdded |-> <<>>, variablesAdded |-> <<>>,    \* the local arrays
             changesSecrets |-> Unset, changesVariables |-> Unset] \* result.changes.*

\* a repository on the platform. `text` is what the configuration field of the
\* settings page holds: the stored configuration ("config"), nothing ("empty")
\* or text that is not JSON ("not JSON"); which of the last two it is for a
\* repository without configuration is settled when the field is first read
\* ("unread" until then)
RemoteInit(c) == [mcp |-> c, initial |-> c, writes |-> 0, secrets |-> {}, variables |-> {},
                  text |-> IF c.isNull THEN "unread" ELSE "config"]

\* the engine's BrowserAutomator and what it launched: the number of browser
\* instances alive, whether this.context is an open context, whether it refers
\* to a closed one (stale), the isAuthenticated field, whether a page was
\* opened for a repository, the number of authentications that succeeded, and
\* whether the platform has ended the session of the context since
BrowserInit == [live |-> 0, context |-> FALSE, stale |-> FALSE,
                isAuthenticated |-> FALSE, used |-> FALSE,
                auths |-> 0, sessionLost |-> FALSE]

\* ConfigurationOptions before the command line is read
OptsUnset == [dryRun |-> FALSE, apiOnly |-> FALSE, interactiveAuth |-> FALSE,
              concurrency |-> 1, mergeStrategy |-> SKIP]

\* the engine after construction, nothing parsed or resolved
EngineIdle ==
    /\ opts = OptsUnset
    /\ mcpConfig = NullConfig
    /\ secretsConfig = [present |-> FALSE, secrets |-> <<>>, variables |-> <<>>]
    /\ repoConfig = NoRepoConfig
    /\ listed = FALSE
    /\ repositories = <<>>
    /\ phase = "idle"
    /\ batchStart = 0
    /\ pipe = <<>>
    /\ results = <<>>
    /\ summary = <<>>
    /\ remote = [r \in PlatformRepos |-> RemoteInit(StoredAt(r))]
    /\ browser = BrowserInit

\* the configure command is started
EngineInit == EngineIdle /\ cli = CliInit

-----------------------------------------------------------------------------
(* windows/configure-copilot.ps1 *)

WinIdle == [phase |-> "idle", dryRun |-> FALSE, maxRetries |-> 1, repos |-> 0, k |-> 0,
            attempt |-> 0, autoIt |-> 0, lastExit |-> -1,
            successCount |-> 0, failCount |-> 0, exitCode |-> -1]

\* the script is started with its parameters
WinInit ==
    win \in [phase : {"start"}, dryRun : BOOLEAN, maxRetries : 0..MaxRetriesLimit,
             repos : {0}, k : {0}, attempt : {0}, autoIt : {0}, lastExit : {-1},
             successCount : {0}, failCount : {0}, exitCode : {-1}]

\* Start-Configuration up to the foreach loop: Test-Prerequisites,
\* Get-RepositoryList, Get-McpConfiguration, Save-TempConfig
WinStartConfiguration ==
    /\ win.phase = "start"
    /\ \E prerequisites \in BOOLEAN, n \in 0..MaxRepos, configLoaded \in BOOLEAN :
        win' = IF ~prerequisites \/ n = 0 \/ ~configLoaded
               THEN [win EXCEPT !.phase = "exited", !.exitCode = 1]
               ELSE [win EXCEPT !.phase = "processing", !.repos = n, !.k = 1, !.attempt = 1]
    /\ UNCHANGED <<engineVars, m, ui, au>>

\* github-copilot-config.au3, StartBrowserAutomation: the exit code for a window
\* title with "Page not found" or "404" after the navigation to the settings page
ExitPageNotFound == 4

\* the exit codes of the AutoIt process: Exit(0), Exit(1), Exit(4)
AutoItExitCodes == {0, 1, ExitPageNotFound}

\* one call of Process-Repository for repository win.k: the dry-run return, or
\* Invoke-AutoItScript and then success, the recursive retry, or failure; the
\* foreach loop counts an outcome and moves on
WinProcessRepository ==
    /\ win.phase = "processing"
    /\ win.k <= win.repos
    /\ IF win.dryRun
       THEN win' = [win EXCEPT !.successCount = @ + 1, !.k = @ + 1, !.attempt = 1]
       ELSE \E code \in AutoItExitCodes :
            LET w == [win EXCEPT !.autoIt = @ + 1, !.lastExit = code]
                success == code = 0
            IN  win' = IF success
                       THEN [w EXCEPT !.successCount = @ + 1, !.k = @ + 1, !.attempt = 1]
                       ELSE IF w.attempt < w.maxRetries
                       THEN [w EXCEPT !.attempt = @ + 1]
                       ELSE [w EXCEPT !.failCount = @ + 1, !.k = @ + 1, !.attempt = 1]
    /\ UNCHANGED <<engineVars, m, ui, au>>

\* after the loop: the temporary directory is removed, Show-Summary, exit
WinShowSummary ==
    /\ win.phase = "processing"
    /\ win.k > win.repos
    /\ win' = [win EXCEPT !.phase = "exited",
                          !.exitCode = IF win.failCount > 0 THEN 1 ELSE 0]
    /\ UNCHANGED <<engineVars, m, ui, au>>

\* the write-then-read harness before a page is drawn
ChannelIdle == [pc |-> "idle", switch |-> "none", oldCookies |-> {}, cookies |-> {},
                newConfig |-> NullConfig, field |-> FALSE, save |-> "none",
                text |-> <<>>, applied |-> FALSE, banner |-> FALSE, report |-> "none",
                readReport |-> "none", readResult |-> NullConfig]

\* the AutoIt script before it is started
AutoItIdle == [pc |-> "idle", page |-> <<>>, focus |-> 0, tabAttempts |-> 0, dryRun |-> FALSE,
               strategy |-> 0, ran |-> <<0, 0, 0, 0, 0>>, checks |-> 0, positives |-> 0,
               positive |-> FALSE, cleared |-> FALSE, typed |-> FALSE, saveSent |-> FALSE,
               saveTarget |-> FALSE, banner |-> FALSE, exitCode |-> -1]

\* one of the two implementations runs: the TypeScript engine or the Windows script
Init ==
    \/ EngineInit /\ m = HarnessIdle /\ win = WinIdle /\ ui = ChannelIdle /\ au = AutoItIdle
    \/ EngineIdle /\ cli = CliIdle /\ m = HarnessIdle /\ WinInit /\ ui = ChannelIdle /\ au = AutoItIdle

-----------------------------------------------------------------------------
(* ConfigurationEngine.configure *)

\* ConfigurationEngine.createSummary
createSummary(rs) ==
    LET ok(r) == r.success
        bad(r) == ~r.success
        failedRs == SelectSeq(rs, bad)
    IN  [totalRepositories |-> Len(rs),
         successful |-> Len(SelectSeq(rs, ok)),
         failed |-> Len(failedRs),
         errors |-> [k \in DOMAIN failedRs |->
                       [repository |-> failedRs[k].repository,
                        error |-> IF failedRs[k].error # NULL THEN failedRs[k].error
                                  ELSE "Unknown error"]]]

pipelineVars == <<pipe, remote, browser>>

\* the action of the configure command up to engine.configure(configOptions):
\* the files are looked up, the policy flags and the concurrency are validated;
\* process.exit(1) on a failure, else the options are handed to the engine.
\* apiOnly and interactiveAuth are the fields of ConfigurationOptions that
\* configure reads (options.apiOnly, options.interactiveAuth); a caller of the
\* engine sets them or leaves them unset
CliConfigure ==
    /\ cli.pc = "start"
    /\ \E filesExist \in BOOLEAN, flags \in Flags, arg \in ConcurrencyArgs,
          dryRun \in BOOLEAN, apiOnly \in BOOLEAN, interactiveAuth \in BOOLEAN :
        IF filesExist /\ cliFlagsAccepted(flags) /\ concurrencyAccepted(arg)
        THEN /\ cli' = [cli EXCEPT !.pc = "engine", !.flags = flags]
             /\ opts' = [opts EXCEPT !.dryRun = dryRun, !.apiOnly = apiOnly,
                                     !.interactiveAuth = interactiveAuth,
                                     !.concurrency = parseInt(arg)[1]]
             /\ phase' = "parse"
        ELSE /\ cli' = [cli EXCEPT !.pc = "exited", !.flags = flags, !.exitCode = 1]
             /\ UNCHANGED <<opts, phase>>
    /\ UNCHANGED <<mcpConfig, secretsConfig, repositories, batchStart, results, summary,
                   pipelineVars, m, win, ui, au, repoConfig, listed>>

\* configure: parseRepoConfig (validateRepoConfig), parseMCPConfig (JSON.parse,
\* validateMCPConfig), parseSecretsConfig, determineMergeStrategy. The files'
\* contents are read here; a file that does not pass makes configure throw.
ParseConfigs ==
    /\ phase = "parse"
    /\ \E repoFile \in RepoConfigsFor(opts.dryRun), isJson \in BOOLEAN,
          mcpFile \in IncomingConfigs, secretsFile \in SecretsConfigs :
        IF validateRepoConfig(repoFile) /\ isJson /\ validateMCPConfig(mcpFile)
        THEN /\ repoConfig' = repoFile
             /\ mcpConfig' = mcpFile
             /\ secretsConfig' = secretsFile
             /\ opts' = [opts EXCEPT !.mergeStrategy = determineMergeStrategy(cli.flags)]
             /\ cli' = [cli EXCEPT !.flags = NoFlags]
             /\ phase' = "discover"
        ELSE /\ mcpConfig' = IF validateRepoConfig(repoFile) /\ isJson
                             THEN mcpFile ELSE mcpConfig
             /\ phase' = "threw"
             /\ UNCHANGED <<repoConfig, secretsConfig, opts, cli>>
    /\ UNCHANGED <<repositories, batchStart, results, summary, pipelineVars, m, win, ui, au, listed>>

\* the dry-run test ignored: the run goes on to the API initialisation
AfterDiscoveryIgnoresDryRun(dryRun) == "apiInit"

\* if (options.dryRun) { displayDryRunPreview; return } else the run goes on
AfterDiscovery(dryRun) == IF dryRun THEN "dryRunPreview" ELSE "apiInit"

\* discoverRepositories (GitHubCLI.checkAuthentication, then the list or the
\* listing), and the return of an empty summary when none is found
DiscoverRepositories ==
    /\ phase = "discover"
    /\ listed' = TRUE
    /\ \E ghAuthenticated \in BOOLEAN :
        IF ~ghAuthenticated
        THEN /\ phase' = "threw"
             /\ UNCHANGED <<repositories, pipe, summary>>
        ELSE \E found \in {discoverRepositories(repoConfig)} :
                 /\ repositories' = found
                 /\ pipe' = [p \in 1..Len(found) |-> PipeInit]
                 /\ IF found = <<>>
                    THEN phase' = "done" /\ summary' = <<createSummary(<<>>)>>
                    ELSE /\ phase' = AfterDiscovery(opts.dryRun)
                         /\ UNCHANGED summary
    /\ UNCHANGED <<opts, mcpConfig, secretsConfig, batchStart, results, remote, browser,
                   m, win, ui, au, cli, repoConfig>>

\* displayDryRunPreview, then return this.createSummary([], startTime)
DisplayDryRunPreview ==
    /\ phase = "dryRunPreview"
    /\ phase' = "done"
    /\ summary' = <<createSummary(<<>>)>>
    /\ UNCHANGED <<opts, mcpConfig, secretsConfig, repositories, batchStart, results,
                   pipelineVars, m, win, ui, au,
                   cli, repoConfig, listed>>

\* an awaited initialisation or authentication that threw is not caught inside
\* the try block: no later statement of the block runs
AfterAuthenticationContinues(ok, next) == next

\* configure's try block: the statement after an awaited initialisation or
\* authentication runs when it returned, the catch block rethrows otherwise
AfterAuthentication(ok, next) == IF ok THEN next ELSE "threw"

\* apiAutomator.initialize: GitHubCLI.getAuthToken returns a token or throws
ApiInitialize ==
    /\ phase = "apiInit"
    /\ \E tokenOk \in BOOLEAN :
        phase' = AfterAuthentication(tokenOk,
                    IF opts.apiOnly THEN "processing" ELSE "browserInit")
    /\ UNCHANGED <<opts, mcpConfig, secretsConfig, repositories, batchStart, results,
                   summary, pipelineVars, m, win, ui, au,
                   cli, repoConfig, listed>>

\* a close that leaves the browser instance running
CloseLeavesAlive(b) == [b EXCEPT !.context = FALSE]

\* context.close() and browser.close()
Close(b) == [b EXCEPT !.live = IF @ > 0 THEN @ - 1 ELSE 0, !.context = FALSE]

\* chromium.launch and browser.newContext
Launch(b) == [b EXCEPT !.live = @ + 1, !.context = TRUE, !.stale = FALSE]

\* chromium.launch returned and browser.newContext threw
LaunchWithoutContext(b) == [b EXCEPT !.live = @ + 1]

InitializeOutcomes == {"launched", "launch failed", "context failed"}

\* new BrowserAutomator(debug, interactiveAuth) and BrowserAutomator.initialize
BrowserInitialize ==
    /\ phase = "browserInit"
    /\ \E outcome \in InitializeOutcomes :
        IF outcome = "launched"
        THEN /\ browser' = Launch(BrowserInit)
             /\ phase' = "browserAuth"
        ELSE /\ browser' = IF outcome = "context failed"
                           THEN LaunchWithoutContext(BrowserInit) ELSE BrowserInit
             /\ phase' = "threw"
    /\ UNCHANGED <<opts, mcpConfig, secretsConfig, repositories, batchStart, results,
                   summary, pipe, remote, m, win, ui, au,
                   cli, repoConfig, listed>>

\* how authenticateWithGitHub can end: the token or the interactive login is
\* verified or not; after an interactive login outside debug mode,
\* switchToHeadlessMode relaunches the browser, or fails (a warning is logged):
\* at context.cookies() before anything is closed, at chromium.launch or at
\* newContext after it closed the visible browser, or at addCookies
SwitchFailures == {"cookies failed", "relaunch failed", "new context failed",
                   "addCookies failed"}

AuthenticateOutcomes(interactive) ==
    {"verified", "failed"} \cup
    (IF interactive THEN {"switched"} \cup SwitchFailures ELSE {})

\* BrowserAutomator.switchToHeadlessMode
switchToHeadlessMode(b, outcome) ==
    CASE outcome = "switched" -> Launch(Close(b))
      [] outcome = "relaunch failed" -> [Close(b) EXCEPT !.stale = TRUE]
      [] outcome = "new context failed" -> [LaunchWithoutContext(Close(b)) EXCEPT !.stale = TRUE]
      [] outcome = "addCookies failed" -> [Launch(Close(b)) EXCEPT !.sessionLost = TRUE]
      [] OTHER -> b

\* BrowserAutomator.authenticateWithGitHub: sets isAuthenticated or throws
BrowserAuthenticate ==
    /\ phase = "browserAuth"
    /\ \E outcome \in AuthenticateOutcomes(opts.interactiveAuth) :
        /\ browser' = IF outcome = "failed" THEN browser
                      ELSE switchToHeadlessMode(
                             [browser EXCEPT !.isAuthenticated = TRUE, !.auths = @ + 1],
                             outcome)
        /\ phase' = AfterAuthentication(outcome # "failed", "processing")
    /\ UNCHANGED <<opts, mcpConfig, secretsConfig, repositories, batchStart, results,
                   summary, pipe, remote, m, win, ui, au,
                   cli, repoConfig, listed>>

-----------------------------------------------------------------------------
(* ConfigurationEngine.processRepositories *)

Min(a, b) == IF a < b THEN a ELSE b

\* the slice without its end: every repository from i on
BatchAll(i) == (i + 1)..Len(repositories)

\* repositories.slice(i, i + concurrency), as positions of `repositories`
Batch(i) == (i + 1)..Min(i + opts.concurrency, Len(repositories))

\* one OperationResult, from the processRepository call at position p
ResultOf(p) ==
    [repository |-> repositories[p],
     success |-> pipe[p].success,
     error |-> pipe[p].error,
     mcpBy |-> pipe[p].mcpBy,
     secrets |-> pipe[p].changesSecrets,
     variables |-> pipe[p].changesVariables]

\* batch.map(repo => processRepository(repo, ...)): every call of the batch runs
\* up to its first await, the first request of apiAutomator.readMCPConfig
StartBatch ==
    /\ phase = "processing"
    /\ batchStart < Len(repositories)
    /\ \A p \in Batch(batchStart) : pipe[p].pc = "Pending"
    /\ pipe' = [p \in DOMAIN pipe |->
                  IF p \in Batch(batchStart)
                  THEN [pipe[p] EXCEPT !.pc = "ApiRead", !.idx = 1, !.attempts = @ + 1]
                  ELSE pipe[p]]
    /\ UNCHANGED <<opts, mcpConfig, secretsConfig, repositories, phase, batchStart,
                   results, summary, remote, browser, m, win, ui, au,
                   cli, repoConfig, listed>>

\* the wait ends as soon as one call of the batch has returned
BatchAnySettled(i) == \E p \in Batch(i) : pipe[p].pc = "Returned"

\* await Promise.allSettled(...): every call of the batch has returned
BatchSettled(i) == \A p \in Batch(i) : pipe[p].pc = "Returned"

\* Promise.allSettled resolves: the batch's results are pushed in order and the
\* loop moves to the next batch, or ends
CollectBatch ==
    /\ phase = "processing"
    /\ batchStart < Len(repositories)
    /\ BatchSettled(batchStart)
    /\ LET last == Min(batchStart + opts.concurrency, Len(repositories))
       IN  /\ results' = results \o [k \in 1..(last - batchStart) |-> ResultOf(batchStart + k)]
           /\ batchStart' = batchStart + opts.concurrency
           /\ phase' = IF batchStart + opts.concurrency < Len(repositories)
                       THEN "processing" ELSE "cleanup"
    /\ UNCHANGED <<opts, mcpConfig, secretsConfig, repositories, summary, pipelineVars, m, win, ui, au,
                   cli, repoConfig, listed>>

\* BrowserAutomator.cleanup: the context and the browser are closed and the
\* fields set to null; when this.context is a closed context, a context.close()
\* that throws is caught and browser.close() is not reached
cleanup(b) == {[Close(b) EXCEPT !.stale = FALSE]} \cup (IF b.stale THEN {b} ELSE {})

\* apiAutomator.cleanup, browserAutomator.cleanup, createSummary, displaySummary
CleanupAndSummarize ==
    /\ phase = "cleanup"
    /\ browser' \in cleanup(browser)
    /\ summary' = <<createSummary(results)>>
    /\ phase' = "done"
    /\ UNCHANGED <<opts, mcpConfig, secretsConfig, repositories, batchStart, results,
                   pipe, remote, m, win, ui, au,
                   cli, repoConfig, listed>>

\* the exit code is 0 whatever the summary says
exitCodeAlwaysZero(s) == 0

\* if (summary.failed > 0) process.exit(1), else the process ends normally
exitCodeFor(s) == IF s.failed > 0 THEN 1 ELSE 0

\* the action of the configure command after engine.configure: the summary is
\* returned, or the catch block runs on what configure threw
CliExit ==
    /\ cli.pc = "engine"
    /\ phase \in {"done", "threw"}
    /\ cli' = [cli EXCEPT !.pc = "exited",
                          !.exitCode = IF phase = "threw" THEN 1 ELSE exitCodeFor(summary[1])]
    /\ UNCHANGED <<opts, mcpConfig, secretsConfig, repositories, phase, batchStart, results,
                   summary, pipelineVars, m, win, ui, au, repoConfig, listed>>

-----------------------------------------------------------------------------
(* ConfigurationEngine.processRepository *)

\* processRepository returns `result`: its locals are gone
Return(q) == [q EXCEPT !.pc = "Returned", !.idx = 0,
                       !.existingConfig = NullConfig, !.finalConfig = NullConfig,
                       !.apiReadExhausted = FALSE,
                       !.secretsAdded = <<>>, !.variablesAdded = <<>>]

\* no outer catch: the error leaves processRepository and the call never returns a result
FailedRejects(q, err) == [q EXCEPT !.pc = "Rejected", !.error = err]

\* the outer catch: result.error = error.toString(), and the call returns
Failed(q, err) == Return([q EXCEPT !.error = err])

\* result.success = true, and the call returns
Succeeded(q) == Return([q EXCEPT !.success = TRUE])

\* the code after the secrets loop: the variables loop starts with its first
\* call of the GitHub CLI, or (no variable) the call returns with success
AfterSecrets(q) ==
    IF Len(secretsConfig.variables) > 0
    THEN [q EXCEPT !.pc = "Variables", !.idx = 1]
    ELSE Succeeded([q EXCEPT !.changesVariables = Added(<<>>)])

\* the variables loop placed before the secrets loop
AfterMcpVariablesFirst(q) ==
    IF ~secretsConfig.present
    THEN Succeeded(q)
    ELSE IF Len(secretsConfig.variables) > 0
    THEN [q EXCEPT !.pc = "Variables", !.idx = 1]
    ELSE Succeeded(q)

\* result.changes.mcpConfig = mcpResult, then the secrets and variables loops run
\* up to their first call of the GitHub CLI
AfterMcp(q) ==
    IF ~secretsConfig.present
    THEN Succeeded(q)
    ELSE IF Len(secretsConfig.secrets) > 0
    THEN [q EXCEPT !.pc = "Secrets", !.idx = 1]
    ELSE AfterSecrets([q EXCEPT !.changesSecrets = Added(<<>>)])

\* the API branch after readMCPConfig returned `existing`: merge, then either
\* "No changes needed" or the first request of apiAutomator.updateMCPConfig
ApiDecide(q, existing) ==
    LET finalConfig == apiMergeMCPConfig(existing, mcpConfig, opts.mergeStrategy)
        q1 == [q EXCEPT !.existingConfig = existing, !.finalConfig = finalConfig]
    IN  IF NoChangesNeeded(existing, finalConfig)
        THEN AfterMcp([q1 EXCEPT !.mcpBy = "api"])
        ELSE [q1 EXCEPT !.pc = "ApiUpdate", !.idx = 1]

\* BrowserAutomator.configureRepository after readMCPConfig returned `existing`
UiDecide(q, existing) ==
    LET finalConfig == mergeMCPConfig(existing, mcpConfig, opts.mergeStrategy)
        q1 == [q EXCEPT !.existingConfig = existing, !.finalConfig = finalConfig]
    IN  IF NoChangesNeeded(existing, finalConfig)
        THEN AfterMcp([q1 EXCEPT !.mcpBy = "ui"])
        ELSE [q1 EXCEPT !.pc = "UiUpdate", !.idx = 0]

\* response bodies the speculative endpoints may answer with, for a stored configuration c
ResponseBody(shape, c) ==
    CASE shape = "mcpServers" -> << <<"mcpServers", c.mcpServers>> >>
      [] shape = "servers" -> << <<"servers", c.mcpServers>> >>
      [] shape = "mcp" -> << <<"mcp", c>> >>
      [] shape = "configuration" -> << <<"configuration", c>> >>
      [] OTHER -> << <<"message", "ok">> >>

KnownShapes == {"mcpServers", "servers", "mcp", "configuration"}

\* readMCPConfig's interpretation of a 200 response: <<the configuration it
\* returns>>, or <<>> when no shape matches and the probing goes on
apiParseResponse(data) ==
    IF HasOwn(data, "mcpServers") THEN <<Config(OwnValue(data, "mcpServers"))>>
    ELSE IF HasOwn(data, "servers") THEN <<Config(OwnValue(data, "servers"))>>
    ELSE IF HasOwn(data, "mcp") THEN <<OwnValue(data, "mcp")>>
    ELSE IF HasOwn(data, "configuration") THEN <<OwnValue(data, "configuration")>>
    ELSE <<>>

\* loops that end at the first failed combination
LoopsEndAtFirstFailure(idx, combos) == TRUE

\* the nested for loops over endpoints, accept headers (and payloads) have no
\* combination left after combination idx
LoopsEnd(idx, combos) == idx >= combos

ApiReadOutcomes == KnownShapes \cup {"200_unknown", "404", "403", "other", "throw"}

\* readMCPConfig's handling of the answer `outcome` to one request, c being the
\* stored configuration: <<the configuration it returns>>, or <<>> when the
\* loops go on to the next endpoint x accept-header combination
readAttempt(outcome, c) ==
    IF outcome \in KnownShapes \cup {"200_unknown"}
    THEN apiParseResponse(ResponseBody(outcome, c))
    ELSE <<>>

\* GitHubAPIAutomator.readMCPConfig: the answer to the request of combination
\* pipe[p].idx arrives. The function returns the configuration found, goes on
\* to the next combination, or returns null after the last one; on a return the
\* merge and the comparison of processRepository run up to the next await.
ApiRead(p) ==
    /\ phase = "processing"
    /\ pipe[p].pc = "ApiRead"
    /\ \E outcome \in ApiReadOutcomes :
        /\ outcome \in KnownShapes => ~IsNull(remote[repositories[p]].mcp)
        /\ LET q == pipe[p]
               got == readAttempt(outcome, remote[repositories[p]].mcp)
           IN  pipe' = [pipe EXCEPT ![p] =
                 IF got # <<>> THEN ApiDecide(q, got[1])
                 ELSE IF ~LoopsEnd(q.idx, ReadCombos) THEN [q EXCEPT !.idx = q.idx + 1]
                 ELSE ApiDecide([q EXCEPT !.apiReadExhausted = TRUE], NullConfig)]
    /\ UNCHANGED <<opts, mcpConfig, secretsConfig, repositories, phase, batchStart,
                   results, summary, remote, browser, m, win, ui, au,
                   cli, repoConfig, listed>>

\* the platform stores configuration c for repository r
StoreMcp(r, c) == [remote EXCEPT ![r].mcp = c, ![r].writes = @ + 1, ![r].text = "config"]

\* a catch (apiError) block without the API-only test
FallbackIgnoresApiOnly(q, authOutcome) ==
    IF ~browser.isAuthenticated
    THEN IF ~opts.interactiveAuth
         THEN Failed(q, "Browser authentication required but not available")
         ELSE IF authOutcome = "authenticated"
         THEN [q EXCEPT !.pc = "UiRead", !.idx = 0]
         ELSE Failed(q, authOutcome)
    ELSE IF ~browser.context
    THEN Failed(q, IF browser.stale THEN "Target page, context or browser has been closed"
                   ELSE "Browser not initialized")
    ELSE [q EXCEPT !.pc = "UiRead", !.idx = 0]

\* the catch (apiError) block of processRepository, up to the first await of
\* browserAutomator.configureRepository; b is the automator after the block
\* (authOutcome: how a re-initialisation with interactive authentication ends)
Fallback(q, authOutcome) ==
    IF opts.apiOnly
    THEN Failed(q, "API-only mode enabled but API configuration failed")
    ELSE IF ~browser.isAuthenticated
    THEN IF ~opts.interactiveAuth
         THEN Failed(q, "Browser authentication required but not available")
         ELSE IF authOutcome = "authenticated"
         THEN [q EXCEPT !.pc = "UiRead", !.idx = 0]
         ELSE Failed(q, authOutcome)
    ELSE IF ~browser.context
    THEN Failed(q, IF browser.stale THEN "Target page, context or browser has been closed"
                   ELSE "Browser not initialized")
    ELSE [q EXCEPT !.pc = "UiRead", !.idx = 0]

\* the engine's browser automator after the catch (apiError) block
FallbackBrowser(authOutcome) ==
    IF ~opts.apiOnly /\ ~browser.isAuthenticated /\ opts.interactiveAuth
    THEN CASE authOutcome = "authenticated" ->
                [Launch(Close(browser)) EXCEPT !.isAuthenticated = TRUE, !.used = TRUE,
                                               !.auths = @ + 1, !.sessionLost = FALSE]
           [] authOutcome = "Failed to initialize browser" ->
                [Close(browser) EXCEPT !.isAuthenticated = FALSE, !.used = TRUE]
           [] OTHER ->
                [Launch(Close(browser)) EXCEPT !.isAuthenticated = FALSE, !.used = TRUE]
    ELSE browser

AuthOutcomes == {"authenticated", "Failed to initialize browser", "Interactive authentication failed"}

\* one endpoint x accept-header x payload combination of updateMCPConfig: the
\* PUT succeeds, or answers 404 (the PATCH and POST are skipped), or fails
\* otherwise and the PATCH or the POST succeeds, or all three fail
ApiUpdateOutcomes == {"put_2xx", "put_404", "patch_2xx", "post_2xx", "all_failed"}

\* whether updateMCPConfig returns on the answers `outcome` to one combination
updateAttempt(outcome) == outcome \in {"put_2xx", "patch_2xx", "post_2xx"}

\* how a re-initialisation of the browser automator in the catch block can end
\* (only the unauthenticated, interactive case re-initialises)
FallbackAuthOutcomes ==
    IF ~opts.apiOnly /\ ~browser.isAuthenticated /\ opts.interactiveAuth
    THEN AuthOutcomes ELSE {"authenticated"}

\* GitHubAPIAutomator.updateMCPConfig: the answers to the requests of combination
\* pipe[p].idx arrive. The function returns on a success, goes on to the next
\* combination, or throws after the last one, and then the catch (apiError)
\* block of processRepository runs.
ApiUpdate(p) ==
    /\ phase = "processing"
    /\ pipe[p].pc = "ApiUpdate"
    /\ \E outcome \in ApiUpdateOutcomes :
        LET q == pipe[p]
        IN  IF updateAttempt(outcome)
            THEN /\ remote' = StoreMcp(repositories[p], q.finalConfig)
                 /\ pipe' = [pipe EXCEPT ![p] = AfterMcp([q EXCEPT !.mcpBy = "api"])]
                 /\ UNCHANGED browser
            ELSE IF ~LoopsEnd(q.idx, UpdateCombos)
            THEN /\ pipe' = [pipe EXCEPT ![p] = [q EXCEPT !.idx = q.idx + 1]]
                 /\ UNCHANGED <<remote, browser>>
            ELSE \E authOutcome \in FallbackAuthOutcomes :
                 /\ pipe' = [pipe EXCEPT ![p] = Fallback(q, authOutcome)]
                 /\ browser' = FallbackBrowser(authOutcome)
                 /\ UNCHANGED remote
    /\ UNCHANGED <<opts, mcpConfig, secretsConfig, repositories, phase, batchStart,
                   results, summary, m, win, ui, au,
                   cli, repoConfig, listed>>

-----------------------------------------------------------------------------
(* BrowserAutomator.configureRepository *)

\* the text of the configuration field for a stored configuration
FieldText(c) == IF IsNull(c) THEN <<>> ELSE Stringify(c)

\* a field text that JSON.parse rejects: a configuration cut off after its first key
NotJsonText == <<"{", "mcpServers", ":">>

\* what the field of a repository can turn out to hold when it is read
TextChoices(rem) == IF rem.text = "unread" THEN {"empty", "not JSON"} ELSE {rem.text}

\* mcpConfigElement.textContent() of a field that holds `text`
textContent(rem, text) ==
    IF text = "not JSON" THEN NotJsonText ELSE FieldText(rem.mcp)

\* the tokens of `text` from position k on
From(text, k) == SubSeq(text, k, Len(text))

\* JSON.parse inside a server entry, after its "{": <<the entry, the tokens after
\* its "}">>, or <<>> for a SyntaxError; a repeated key keeps its first position
\* and takes the last value
RECURSIVE ParseFields(_, _)
ParseFields(text, entry) ==
    IF text = <<>> THEN <<>>
    ELSE IF Head(text) = "}" THEN <<entry, Tail(text)>>
    ELSE IF Len(text) >= 4 /\ text[2] = ":" /\ text[4] = ","
    THEN ParseFields(From(text, 5), SetKey(entry, text[1], text[3]))
    ELSE <<>>

\* JSON.parse inside the mcpServers object, after its "{"
RECURSIVE ParseServers(_, _)
ParseServers(text, servers) ==
    IF text = <<>> THEN <<>>
    ELSE IF Head(text) = "}" THEN <<servers, Tail(text)>>
    ELSE IF Len(text) >= 3 /\ text[2] = ":" /\ text[3] = "{"
    THEN LET entry == ParseFields(From(text, 4), <<>>)
         IN  IF entry = <<>> \/ entry[2] = <<>> \/ Head(entry[2]) # ","
             THEN <<>>
             ELSE ParseServers(Tail(entry[2]), SetKey(servers, text[1], entry[1]))
    ELSE <<>>

\* JSON.parse of a field text: <<the configuration>>, or <<>> for a SyntaxError
ParseJSON(text) ==
    IF Len(text) >= 4 /\ SubSeq(text, 1, 4) = <<"{", "mcpServers", ":", "{">>
    THEN LET servers == ParseServers(From(text, 5), <<>>)
         IN  IF servers # <<>> /\ servers[2] = <<"}">>
             THEN <<Config(servers[1])>>
             ELSE <<>>
    ELSE <<>>

\* a readMCPConfig that returns text that is not JSON as an absent configuration
notJsonAsAbsent(q, configText) == UiDecide(q, NullConfig)

\* readMCPConfig from the text of the element it found, then configureRepository:
\* null for an empty text, the parsed configuration, or the SyntaxError rethrown
readConfigText(q, configText) ==
    IF configText = <<>> THEN UiDecide(q, NullConfig)
    ELSE IF ParseJSON(configText) = <<>>
    THEN Failed(q, "MCP config is not valid JSON")
    ELSE UiDecide(q, ParseJSON(configText)[1])

UiReadOutcomes == {"navigation failed", "No access to repository settings", "nofield", "found"}

\* the settings page of a session that the platform has ended shows the login
\* form: no access-denied marker and no configuration field
UiReadOutcomesFor(b) ==
    IF b.sessionLost THEN {"navigation failed", "nofield"} ELSE UiReadOutcomes

\* BrowserAutomator.readMCPConfig, then the merge and comparison of configureRepository
UiRead(p) ==
    /\ phase = "processing"
    /\ pipe[p].pc = "UiRead"
    /\ \E outcome \in UiReadOutcomesFor(browser),
          text \in TextChoices(remote[repositories[p]]) :
        LET q == pipe[p]
            configText == textContent(remote[repositories[p]], text)
        IN  /\ pipe' = [pipe EXCEPT ![p] =
                  IF outcome = "nofield" THEN UiDecide(q, NullConfig)
                  ELSE IF outcome = "found" THEN readConfigText(q, configText)
                  ELSE Failed(q, outcome)]
            /\ remote' = IF outcome = "found"
                         THEN [remote EXCEPT ![repositories[p]].text = text]
                         ELSE remote
    /\ browser' = [browser EXCEPT !.used = TRUE]
    /\ UNCHANGED <<opts, mcpConfig, secretsConfig, repositories, phase, batchStart,
                   results, summary, m, win, ui, au,
                   cli, repoConfig, listed>>

UiUpdateOutcomes == {"navigation failed", "No access to repository settings",
                     "Could not find MCP configuration field",
                     "Could not find save button for MCP configuration",
                     "Failed to save MCP config", "saved"}

UiUpdateOutcomesFor(b) ==
    IF b.sessionLost THEN {"navigation failed", "Could not find MCP configuration field"}
    ELSE UiUpdateOutcomes

\* BrowserAutomator.updateMCPConfig
UiUpdate(p) ==
    /\ phase = "processing"
    /\ pipe[p].pc = "UiUpdate"
    /\ \E outcome \in UiUpdateOutcomesFor(browser) :
        LET q == pipe[p]
            typed == Stringify(q.finalConfig)
        IN  IF outcome = "saved"
            THEN /\ remote' = StoreMcp(repositories[p], ParseJSON(typed)[1])
                 /\ pipe' = [pipe EXCEPT ![p] = AfterMcp([q EXCEPT !.mcpBy = "ui"])]
            ELSE /\ pipe' = [pipe EXCEPT ![p] = Failed(q, outcome)]
                 /\ UNCHANGED remote
    /\ browser' = [browser EXCEPT !.used = TRUE]
    /\ UNCHANGED <<opts, mcpConfig, secretsConfig, repositories, phase, batchStart,
                   results, summary, m, win, ui, au,
                   cli, repoConfig, listed>>

\* the platform ends the session of the shared context during the run (the
\* login expires or is revoked); no field of the engine changes
SessionExpires ==
    /\ phase = "processing"
    /\ browser.isAuthenticated /\ browser.context /\ ~browser.sessionLost
    /\ browser' = [browser EXCEPT !.sessionLost = TRUE]
    /\ UNCHANGED <<opts, mcpConfig, secretsConfig, repositories, phase, batchStart,
                   results, summary, pipe, remote, m, win, ui, au,
                   cli, repoConfig, listed>>

-----------------------------------------------------------------------------
(* the secrets and variables loops of processRepository *)

\* a catch block that undoes the repository's changes of this run
RolledBack(r) == [remote EXCEPT ![r] = RemoteInit(remote[r].initial)]

\* the platform after the outer catch block ran for repository r: the block
\* assigns result.error and logs, it sends no request
AfterCatch(r) == remote

\* GitHubCLI.setRepositorySecret for secret pipe[p].idx returns or throws
SetSecret(p) ==
    /\ phase = "processing"
    /\ pipe[p].pc = "Secrets"
    /\ \E ok \in BOOLEAN :
        LET q == pipe[p]
            name == secretsConfig.secrets[q.idx]
            added == Append(q.secretsAdded, name)
        IN  IF ok
            THEN /\ remote' = [remote EXCEPT ![repositories[p]].secrets = @ \cup {name}]
                 /\ pipe' = [pipe EXCEPT ![p] =
                      IF q.idx < Len(secretsConfig.secrets)
                      THEN [q EXCEPT !.idx = q.idx + 1, !.secretsAdded = added]
                      ELSE AfterSecrets([q EXCEPT !.secretsAdded = added,
                                                  !.changesSecrets = Added(added)])]
            ELSE /\ pipe' = [pipe EXCEPT ![p] = Failed(q, "Failed to set secret")]
                 /\ remote' = AfterCatch(repositories[p])
    /\ UNCHANGED <<opts, mcpConfig, secretsConfig, repositories, phase, batchStart,
                   results, summary, browser, m, win, ui, au,
                   cli, repoConfig, listed>>

\* GitHubCLI.setRepositoryVariable for variable pipe[p].idx returns or throws
SetVariable(p) ==
    /\ phase = "processing"
    /\ pipe[p].pc = "Variables"
    /\ \E ok \in BOOLEAN :
        LET q == pipe[p]
            name == secretsConfig.variables[q.idx]
            added == Append(q.variablesAdded, name)
        IN  IF ok
            THEN /\ remote' = [remote EXCEPT ![repositories[p]].variables = @ \cup {name}]
                 /\ pipe' = [pipe EXCEPT ![p] =
                      IF q.idx < Len(secretsConfig.variables)
                      THEN [q EXCEPT !.idx = q.idx + 1, !.variablesAdded = added]
                      ELSE Succeeded([q EXCEPT !.changesVariables = Added(added)])]
            ELSE /\ pipe' = [pipe EXCEPT ![p] = Failed(q, "Failed to set variable")]
                 /\ remote' = AfterCatch(repositories[p])
    /\ UNCHANGED <<opts, mcpConfig, secretsConfig, repositories, phase, batchStart,
                   results, summary, browser, m, win, ui, au,
                   cli, repoConfig, listed>>

-----------------------------------------------------------------------------
(* Specifications *)

Next ==
    \/ CliConfigure
    \/ ParseConfigs
    \/ DiscoverRepositories
    \/ DisplayDryRunPreview
    \/ ApiInitialize
    \/ BrowserInitialize
    \/ BrowserAuthenticate
    \/ SessionExpires
    \/ StartBatch
    \/ \E p \in DOMAIN pipe : ApiRead(p)
    \/ \E p \in DOMAIN pipe : ApiUpdate(p)
    \/ \E p \in DOMAIN pipe : UiRead(p)
    \/ \E p \in DOMAIN pipe : UiUpdate(p)
    \/ \E p \in DOMAIN pipe : SetSecret(p)
    \/ \E p \in DOMAIN pipe : SetVariable(p)
    \/ CollectBatch
    \/ CleanupAndSummarize
    \/ CliExit
    \/ WinStartConfiguration
    \/ WinProcessRepository
    \/ WinShowSummary

Spec == Init /\ [][Next]_vars

\* the engine at the call of processRepositories, in an API-only run of the
\* configure command over an explicit list of n administered repositories, with
\* batch size `concurrency` and no secrets file
BatchInit ==
    /\ \E n \in 1..MaxBatchRepos, concurrency \in 1..MaxConcurrency :
        /\ opts = [OptsUnset EXCEPT !.apiOnly = TRUE, !.concurrency = concurrency]
        /\ repoConfig = ListConfig([i \in 1..n |-> i])
        /\ repositories = [i \in 1..n |-> i]
        /\ pipe = [p \in 1..n |-> PipeInit]
    /\ mcpConfig = cfgGithub
    /\ secretsConfig = [present |-> FALSE, secrets |-> <<>>, variables |-> <<>>]
    /\ listed = TRUE
    /\ phase = "processing"
    /\ batchStart = 0
    /\ results = <<>>
    /\ summary = <<>>
    /\ remote = [r \in PlatformRepos |-> RemoteInit(StoredAt(r))]
    /\ browser = BrowserInit
    /\ cli = [CliInit EXCEPT !.pc = "engine"]
    /\ m = HarnessIdle
    /\ win = WinIdle
    /\ ui = ChannelIdle
    /\ au = AutoItIdle

BatchNext ==
    \/ StartBatch
    \/ \E p \in DOMAIN pipe : ApiRead(p)
    \/ \E p \in DOMAIN pipe : ApiUpdate(p)
    \/ CollectBatch
    \/ CleanupAndSummarize
    \/ CliExit

BatchSpec == BatchInit /\ [][BatchNext]_vars

MergeInit ==
    /\ EngineIdle
    /\ cli = CliIdle
    /\ win = WinIdle
    /\ ui = ChannelIdle
    /\ au = AutoItIdle
    /\ m \in [pc : {"drawn"}, existing : HarnessConfigs \cup {NullConfig},
              newConfig : HarnessConfigs, strategy : MergeStrategy,
              result : {NullConfig}, by : {NULL},
              readBack : {"none"}, twice : {NullConfig}, rewrite : {FALSE}]

MergeNext == HarnessBrowserMerge \/ HarnessApiMerge \/ HarnessSecondRun

MergeSpec == MergeInit /\ [][MergeNext]_vars

-----------------------------------------------------------------------------
(* Channel harness: one BrowserAutomator writes a drawn configuration to the *)
(* settings page of a repository and then reads the page                     *)

\* the configurations the engine hands to a channel: ConfigParser validated them
ValidConfigs == {c \in HarnessConfigs : validateMCPConfig(c)}

\* what the first visible candidate of saveSelectors is: none is visible, the
\* button of the configuration form, or another control of the settings page
\* that 'button:has-text("Save")', 'button[type="submit"]' or 'button.btn-primary'
\* matches first
SaveTargets == {"none", "form", "other"}

\* how page.goto and the access check of a page operation end
PageOutcomes == {"loaded", "navigation failed", "No access to repository settings"}

\* the cookies of the session after a login in the visible browser
CookieSets == {{"user_session"}, {"user_session", "logged_in"}}

\* the cookies this.context holds after switchToHeadlessMode: those of the
\* visible context when nothing was closed, those handed to addCookies in the
\* new context, none in a closed context or when addCookies threw
cookiesAfterSwitch(outcome, cookies) ==
    IF outcome \in {"verified", "cookies failed", "switched"} THEN cookies
    ELSE {}

\* the guard of a page operation and context.newPage(): the Error thrown without
\* an open context, "none" with one
newPage(b) ==
    IF b.context THEN "none"
    ELSE IF b.stale THEN "Target page, context or browser has been closed"
    ELSE "Browser not initialized"

\* the field is visible on a page of the automator's context: a context without
\* the session is shown the login form
FieldVisible == ui.field /\ ~browser.sessionLost

\* an updateMCPConfig that takes the click on the save button for the save
updateReportIgnoresBanner(field, save, banner) ==
    IF ~field THEN "Could not find MCP configuration field"
    ELSE IF save = "none" THEN "Could not find save button for MCP configuration"
    ELSE "success"

\* updateMCPConfig on a loaded page: the Error it throws, or "success" when it returns
updateReport(field, save, banner) ==
    IF ~field THEN "Could not find MCP configuration field"
    ELSE IF save = "none" THEN "Could not find save button for MCP configuration"
    ELSE IF banner THEN "Failed to save MCP config"
    ELSE "success"

\* a readMCPConfig that takes a configuration without servers for no configuration
readReturnedNoServersAsNull(field, configText) ==
    IF ~field \/ configText = <<>> THEN [report |-> "returned", config |-> NullConfig]
    ELSE IF ParseJSON(configText) = <<>>
    THEN [report |-> "MCP config is not valid JSON", config |-> NullConfig]
    ELSE IF ParseJSON(configText)[1].mcpServers = <<>>
    THEN [report |-> "returned", config |-> NullConfig]
    ELSE [report |-> "returned", config |-> ParseJSON(configText)[1]]

\* readMCPConfig on a loaded page: null without a visible field or for an empty
\* text, the parsed text, or the Error for a text that JSON.parse rejects
readReturned(field, configText) ==
    IF ~field \/ configText = <<>> THEN [report |-> "returned", config |-> NullConfig]
    ELSE IF ParseJSON(configText) = <<>>
    THEN [report |-> "MCP config is not valid JSON", config |-> NullConfig]
    ELSE [report |-> "returned", config |-> ParseJSON(configText)[1]]

\* BrowserAutomator.updateMCPConfig(repositoryName, newConfig): the text is typed
\* into the field before the save button is looked for; the platform stores the
\* typed text when the button of the configuration form is clicked and the
\* platform applies the save; an element of the error selector may be visible
\* three seconds after the click
ChannelUpdate ==
    /\ ui.pc = "drawn"
    /\ \E outcome \in PageOutcomes, applies \in BOOLEAN, banner \in BOOLEAN :
        LET loaded == newPage(browser) = "none" /\ outcome = "loaded"
            clicked == loaded /\ FieldVisible /\ ui.save # "none"
            applied == clicked /\ ui.save = "form" /\ applies
            typed == Stringify(ui.newConfig)
        IN  ui' = [ui EXCEPT !.pc = "written",
                             !.text = IF applied THEN typed ELSE @,
                             !.applied = applied,
                             !.banner = clicked /\ banner,
                             !.report = IF newPage(browser) # "none" THEN newPage(browser)
                                        ELSE IF outcome # "loaded" THEN outcome
                                        ELSE updateReport(FieldVisible, ui.save,
                                                          clicked /\ banner)]
    /\ UNCHANGED <<engineVars, m, win, au>>

\* BrowserAutomator.readMCPConfig(repositoryName) on a new page of the same context
ChannelRead ==
    /\ ui.pc = "written"
    /\ \E outcome \in PageOutcomes :
        LET r == readReturned(FieldVisible, ui.text)
            loaded == newPage(browser) = "none" /\ outcome = "loaded"
        IN  ui' = [ui EXCEPT !.pc = "read",
                             !.readReport = IF newPage(browser) # "none" THEN newPage(browser)
                                            ELSE IF outcome # "loaded" THEN outcome
                                            ELSE r.report,
                             !.readResult = IF loaded THEN r.config ELSE NullConfig]
    /\ UNCHANGED <<engineVars, m, win, au>>

\* new BrowserAutomator(false, true), initialize and authenticateWithGitHub with
\* a verified interactive login; switchToHeadlessMode follows outside debug mode
ChannelAuthenticate ==
    /\ ui.pc = "auth"
    /\ \E outcome \in AuthenticateOutcomes(TRUE) \ {"failed"}, cookies \in CookieSets :
        /\ browser' = switchToHeadlessMode(
                          [Launch(BrowserInit) EXCEPT !.isAuthenticated = TRUE, !.auths = 1],
                          outcome)
        /\ ui' = [ui EXCEPT !.pc = "drawn", !.switch = outcome, !.oldCookies = cookies,
                             !.cookies = cookiesAfterSwitch(outcome, cookies)]
    /\ UNCHANGED <<opts, mcpConfig, secretsConfig, repositories, phase, batchStart,
                   results, summary, pipe, remote, m, win, au, cli, repoConfig, listed>>

\* a page is drawn: whether a field and a save candidate are visible and what
\* the platform stores for the repository
ChannelInit ==
    /\ EngineIdle
    /\ cli = CliIdle
    /\ win = WinIdle
    /\ m = HarnessIdle
    /\ au = AutoItIdle
    /\ ui \in [pc : {"auth"}, switch : {"none"}, oldCookies : {{}}, cookies : {{}},
               newConfig : ValidConfigs, field : BOOLEAN, save : SaveTargets,
               text : {FieldText(NullConfig), FieldText(cfgOther)}, applied : {FALSE},
               banner : {FALSE}, report : {"none"}, readReport : {"none"},
               readResult : {NullConfig}]

ChannelNext == ChannelAuthenticate \/ ChannelUpdate \/ ChannelRead

ChannelSpec == ChannelInit /\ [][ChannelNext]_vars

-----------------------------------------------------------------------------
(* windows/autoit/github-copilot-config.au3 on the settings page of one      *)
(* repository: the field locator, the content classifier, the write          *)

\* most focusable elements of a drawn page
MaxElements == 3

\* $g_TabAttempts as declared
DefaultTabAttempts == 20

\* UBound($searchTerms) of SearchNavigationStrategy
SearchTerms == 5

\* For $j = 1 To 10, forward and then backward, of SearchNavigationStrategy
SearchTabs == 10

\* UBound($shortcuts) of ShortcutNavigationStrategy
Shortcuts == 4

\* For $j = 1 To 10 of ShortcutNavigationStrategy
ShortcutTries == 10

\* For $i = 1 To 20 of ScrollNavigationStrategy
Scrolls == 20

\* For $j = 1 To 5 of ScrollNavigationStrategy
ScrollTabs == 5

\* StringLen($clipboardContent) > 20 And ... < 10000 of CheckFieldContentViaClipboard
MinBracesLen == 20
MaxBracesLen == 10000

\* StringLen($content) > 10 And ... < 50000 of CheckFieldForJsonStructure
MinObjectLen == 10
MaxObjectLen == 50000

\* A text is the record of what the classifier measures on it:
\*   len         StringLen
\*   indicator   StringInStr finds one of $mcpIndicators
\*   braces      StringInStr finds "{" and finds "}"
\*   object      without whitespace it starts with "{" and ends with "}"
\*   keyColon    StringInStr finds '":'
\*   emptyObject without whitespace it is "{}"
\*   label       StringInStr finds one of $labelIndicators in its lower case
textEmpty == [len |-> 0, indicator |-> FALSE, braces |-> FALSE, object |-> FALSE,
              keyColon |-> FALSE, emptyObject |-> FALSE, label |-> FALSE]

\* {"mcpServers": {"github": {"type": "http", "url": "https://x.example"}}}
textConfig == [len |-> 72, indicator |-> TRUE, braces |-> TRUE, object |-> TRUE,
               keyColon |-> TRUE, emptyObject |-> FALSE, label |-> TRUE]

\* {"name": "value", "other": 12345}
textJsonObject == [len |-> 33, indicator |-> FALSE, braces |-> TRUE, object |-> TRUE,
                   keyColon |-> TRUE, emptyObject |-> FALSE, label |-> FALSE]

\* Hello {user}, welcome back to the page
textTemplate == [len |-> 38, indicator |-> FALSE, braces |-> TRUE, object |-> FALSE,
                 keyColon |-> FALSE, emptyObject |-> FALSE, label |-> FALSE]

\* {}
textEmptyObject == [len |-> 2, indicator |-> FALSE, braces |-> TRUE, object |-> TRUE,
                    keyColon |-> FALSE, emptyObject |-> TRUE, label |-> FALSE]

\* {"a":1}
textShortJson == [len |-> 7, indicator |-> FALSE, braces |-> TRUE, object |-> TRUE,
                  keyColon |-> TRUE, emptyObject |-> FALSE, label |-> FALSE]

\* MCP configuration
textLabel == [len |-> 17, indicator |-> FALSE, braces |-> FALSE, object |-> FALSE,
              keyColon |-> FALSE, emptyObject |-> FALSE, label |-> TRUE]

\* Cancel
textPlain == [len |-> 6, indicator |-> FALSE, braces |-> FALSE, object |-> FALSE,
              keyColon |-> FALSE, emptyObject |-> FALSE, label |-> FALSE]

Texts == {textEmpty, textConfig, textJsonObject, textTemplate, textEmptyObject,
          textShortJson, textLabel, textPlain}

\* the texts of the focusable elements of a settings page, in focus order
Pages == UNION {[1..n -> Texts] : n \in 1..MaxElements}

\* the values of the tab-attempts parameter that ValidateInputs accepts, sampled
TabAttemptsChoices == {1, DefaultTabAttempts}

\* ClipGet() after Send("^c") on an element with `text`: copying an empty
\* selection leaves the clipboard as it was
Copy(clipboard, text) == IF text.len = 0 THEN clipboard ELSE text

\* Method 2, CheckFieldContextViaNavigation: Shift+Tab, select all, copy (the
\* clipboard is not cleared before), Tab back, test the copied text for a label
CheckFieldContextViaNavigation(clipboard, previous) == Copy(clipboard, previous).label

\* Method 1, CheckFieldContentViaClipboard: the clipboard is cleared, then the
\* field is copied
CheckFieldContentViaClipboard(content, previous) ==
    LET clipboardContent == Copy(textEmpty, content)
    IN  \/ clipboardContent.indicator
        \/ /\ clipboardContent.braces
           /\ clipboardContent.len > MinBracesLen
           /\ clipboardContent.len < MaxBracesLen
        \/ /\ clipboardContent.len = 0
           /\ CheckFieldContextViaNavigation(clipboardContent, previous)

\* Method 3, CheckFieldForJsonStructure
CheckFieldForJsonStructure(content) ==
    LET c == Copy(textEmpty, content)
    IN  \/ c.object /\ c.keyColon /\ c.len > MinObjectLen /\ c.len < MaxObjectLen
        \/ c.emptyObject

\* CheckForMcpField on the focused element with text `content`, the element
\* before it in focus order having text `previous`; Method 2 runs with the
\* clipboard that Method 1 left
CheckForMcpField(content, previous) ==
    \/ CheckFieldContentViaClipboard(content, previous)
    \/ CheckFieldContextViaNavigation(Copy(textEmpty, content), previous)
    \/ CheckFieldForJsonStructure(content)

\* Send("{TAB}") and Send("+{TAB}") on a page of n focusable elements
TabFrom(f, n) == (f % n) + 1
ShiftTabFrom(f, n) == IF f = 1 THEN n ELSE f - 1

\* the strategies of NavigateToMcpSection in the order it calls them
Strategies == <<"FocusMcpFieldViaSearchShortcut", "TabNavigationStrategy",
                "SearchNavigationStrategy", "ShortcutNavigationStrategy",
                "ScrollNavigationStrategy">>

\* a sequential-tab strategy that always makes the default number of steps
StepsIgnoreTabAttempts(s, tabAttempts) ==
    CASE s = 1 -> 1
      [] s = 2 -> DefaultTabAttempts
      [] s = 3 -> SearchTerms * (SearchTabs + SearchTabs)
      [] s = 4 -> Shortcuts * ShortcutTries
      [] s = 5 -> Scrolls * ScrollTabs

\* the number of CheckForMcpField calls strategy s makes when none is positive
Steps(s, tabAttempts) ==
    CASE s = 1 -> 1
      [] s = 2 -> tabAttempts
      [] s = 3 -> SearchTerms * (SearchTabs + SearchTabs)
      [] s = 4 -> Shortcuts * ShortcutTries
      [] s = 5 -> Scrolls * ScrollTabs

\* the elements that can hold the focus when strategy s makes its i-th check,
\* the focus being on f before: the in-page search, F6 and Ctrl+Tab leave the
\* focus where the browser puts it; Ctrl+Home and Page Down scroll
Moves(s, i, f, n) ==
    CASE s = 1 -> {TabFrom(TabFrom(g, n), n) : g \in 1..n}
      [] s = 2 -> {TabFrom(f, n)}
      [] s = 3 -> LET j == ((i - 1) % (SearchTabs + SearchTabs)) + 1
                  IN  IF j = 1 THEN {TabFrom(g, n) : g \in 1..n}
                      ELSE IF j <= SearchTabs THEN {TabFrom(f, n)}
                      ELSE {ShiftTabFrom(f, n)}
      [] s = 4 -> LET k == ((i - 1) \div ShortcutTries) + 1
                  IN  IF k <= 2 THEN 1..n
                      ELSE IF k = 3 THEN {TabFrom(f, n)}
                      ELSE {ShiftTabFrom(f, n)}
      [] s = 5 -> {TabFrom(f, n)}

\* a locator that goes on to the next check after a positive classification
AfterCheckKeepsSearching(a, positive) ==
    IF a.ran[a.strategy] < Steps(a.strategy, a.tabAttempts) THEN a
    ELSE IF a.strategy < Len(Strategies) THEN [a EXCEPT !.strategy = @ + 1]
    ELSE IF positive THEN [a EXCEPT !.pc = "located"]
    ELSE [a EXCEPT !.pc = "not found"]

\* where the locator stands after a check: Return True of the strategy and of
\* NavigateToMcpSection, the next iteration, the next strategy, or Return False
AfterCheck(a, positive) ==
    IF positive THEN [a EXCEPT !.pc = "located"]
    ELSE IF a.ran[a.strategy] < Steps(a.strategy, a.tabAttempts) THEN a
    ELSE IF a.strategy < Len(Strategies) THEN [a EXCEPT !.strategy = @ + 1]
    ELSE [a EXCEPT !.pc = "not found"]

\* one iteration of strategy s: its keys, then CheckForMcpField
Check(s) ==
    /\ au.pc = "locating"
    /\ \E f \in Moves(s, au.ran[s] + 1, au.focus, Len(au.page)) :
        LET positive == CheckForMcpField(au.page[f], au.page[ShiftTabFrom(f, Len(au.page))])
            a == [au EXCEPT !.focus = f, !.ran[s] = @ + 1, !.checks = @ + 1,
                            !.positive = positive,
                            !.positives = IF positive THEN @ + 1 ELSE @]
        IN  au' = AfterCheck(a, positive)
    /\ UNCHANGED <<engineVars, m, win, ui>>

\* Main up to NavigateToMcpSection: ValidateInputs, LoadMcpConfiguration,
\* StartBrowser, the 404 test of the window title, HandleAuthentication
AutoItStart ==
    /\ au.pc = "start"
    /\ \E outcome \in {"failed", "page not found", "ready"}, f \in 1..Len(au.page) :
        au' = CASE outcome = "failed" -> [au EXCEPT !.pc = "exited", !.exitCode = 1]
                [] outcome = "page not found" ->
                       [au EXCEPT !.pc = "exited", !.exitCode = ExitPageNotFound]
                [] outcome = "ready" ->
                       [au EXCEPT !.pc = "locating", !.strategy = 1, !.focus = f]
    /\ UNCHANGED <<engineVars, m, win, ui>>

FocusMcpFieldViaSearchShortcut ==
    /\ au.strategy = 1
    /\ Check(1)

TabNavigationStrategy ==
    /\ au.strategy = 2
    /\ Check(2)

SearchNavigationStrategy ==
    /\ au.strategy = 3
    /\ Check(3)

ShortcutNavigationStrategy ==
    /\ au.strategy = 4
    /\ Check(4)

ScrollNavigationStrategy ==
    /\ au.strategy = 5
    /\ Check(5)

\* NavigateToMcpSection returned False: StartBrowserAutomation returns False, Exit(1)
AutoItNotFound ==
    /\ au.pc = "not found"
    /\ au' = [au EXCEPT !.pc = "exited", !.exitCode = 1]
    /\ UNCHANGED <<engineVars, m, win, ui>>

\* ConfigureMcpSettings, SaveConfiguration, CloseBrowser and the Exit of Main:
\* the field is cleared, the configuration is pasted from the clipboard, then
\* Esc, Esc, Tab, Enter are sent; whether Enter reached a save control and
\* whether the page shows an error afterwards is never looked at
AutoItConfigure ==
    /\ au.pc = "located"
    /\ IF au.dryRun
       THEN au' = [au EXCEPT !.pc = "exited", !.exitCode = 0]
       ELSE \E clipboardVerified \in BOOLEAN, saveTarget \in BOOLEAN, banner \in BOOLEAN :
            au' = IF ~clipboardVerified
                  THEN [au EXCEPT !.pc = "exited", !.exitCode = 1, !.cleared = TRUE,
                                  !.page[au.focus] = textEmpty]
                  ELSE [au EXCEPT !.pc = "exited", !.exitCode = 0, !.cleared = TRUE,
                                  !.typed = TRUE, !.saveSent = TRUE,
                                  !.page[au.focus] = textConfig,
                                  !.focus = TabFrom(au.focus, Len(au.page)),
                                  !.saveTarget = saveTarget,
                                  !.banner = banner]
    /\ UNCHANGED <<engineVars, m, win, ui>>

\* the script is started on a drawn page with its parameters
AutoItInit ==
    /\ EngineIdle
    /\ cli = CliIdle
    /\ win = WinIdle
    /\ m = HarnessIdle
    /\ ui = ChannelIdle
    /\ \E page \in Pages, tabAttempts \in TabAttemptsChoices, dryRun \in BOOLEAN :
        au = [AutoItIdle EXCEPT !.pc = "start", !.page = page,
                                !.tabAttempts = tabAttempts, !.dryRun = dryRun]

AutoItNext ==
    \/ AutoItStart
    \/ FocusMcpFieldViaSearchShortcut
    \/ TabNavigationStrategy
    \/ SearchNavigationStrategy
    \/ ShortcutNavigationStrategy
    \/ ScrollNavigationStrategy
    \/ AutoItNotFound
    \/ AutoItConfigure

AutoItSpec == AutoItInit /\ [][AutoItNext]_vars

\* the script is one sequential process: it takes its next step as long as it has one
AutoItFairSpec == AutoItSpec /\ WF_vars(AutoItNext)

-----------------------------------------------------------------------------
(* Properties of the merge, checked under MergeSpec *)

Merged == m.pc = "merged"
ExistingNames == Keys(m.existing.mcpServers)
IncomingNames == Keys(m.newConfig.mcpServers)
ResultNames == Keys(m.result.mcpServers)

\* C3: with MergeStrategy.MERGE and a present existing configuration the result's
\* server names are the union of the two name sets, every name of existing maps
\* to existing's entry and every name only in incoming maps to incoming's entry.
C3_MergeKeepsExisting ==
    (Merged /\ m.strategy = MERGE /\ ~IsNull(m.existing)) =>
        /\ ResultNames = ExistingNames \cup IncomingNames
        /\ \A n \in ExistingNames :
              OwnValue(m.result.mcpServers, n) = OwnValue(m.existing.mcpServers, n)
        /\ \A n \in (IncomingNames \ ExistingNames) \cap ResultNames :
              OwnValue(m.result.mcpServers, n) = OwnValue(m.newConfig.mcpServers, n)

\* C4: with MergeStrategy.MERGE_OVERWRITE and a present existing configuration
\* the result's server names are the union of the two name sets, every name of
\* incoming maps to incoming's entry and every name only in existing maps to
\* existing's entry.
C4_MergeOverwriteIncomingWins ==
    (Merged /\ m.strategy = MERGE_OVERWRITE /\ ~IsNull(m.existing)) =>
        /\ ResultNames = ExistingNames \cup IncomingNames
        /\ \A n \in IncomingNames :
              OwnValue(m.result.mcpServers, n) = OwnValue(m.newConfig.mcpServers, n)
        /\ \A n \in ExistingNames \ IncomingNames :
              OwnValue(m.result.mcpServers, n) = OwnValue(m.existing.mcpServers, n)

\* a merge-overwrite of {x, y} with {y, z} where the two entries of y differ
C4_Witness ==
    /\ Merged /\ m.strategy = MERGE_OVERWRITE /\ ~IsNull(m.existing)
    /\ ExistingNames \ IncomingNames # {}
    /\ IncomingNames \ ExistingNames # {}
    /\ \E n \in ExistingNames \cap IncomingNames :
          OwnValue(m.existing.mcpServers, n) # OwnValue(m.newConfig.mcpServers, n)

\* C5: for every existing configuration, present or absent, the merge with
\* MergeStrategy.FORCE_OVERWRITE returns exactly the incoming configuration.
C5_ForceReturnsIncoming ==
    (Merged /\ m.strategy = FORCE_OVERWRITE) => m.result = m.newConfig

\* a forced replacement that drops a server only existing has
C5_Witness ==
    /\ Merged /\ m.strategy = FORCE_OVERWRITE /\ ~IsNull(m.existing)
    /\ ExistingNames \ IncomingNames # {}
    /\ ExistingNames \ ResultNames # {}

\* C6: for each of the four strategies the merge with an absent (null) existing
\* configuration returns exactly the incoming configuration.
C6_AbsentReturnsIncoming ==
    (Merged /\ IsNull(m.existing)) => m.result = m.newConfig

\* a MERGE of a two-server incoming configuration into no configuration
C6_Witness ==
    /\ Merged /\ IsNull(m.existing) /\ m.strategy = MERGE
    /\ Len(m.newConfig.mcpServers) = 2
    /\ ~IsNull(m.result)

\* C7: with MergeStrategy.SKIP and a present existing configuration, also one
\* with zero servers, the merge returns existing unchanged for every incoming
\* configuration, also one that validateMCPConfig rejects.
C7_SkipReturnsExisting ==
    (Merged /\ m.strategy = SKIP /\ ~IsNull(m.existing)) => m.result = m.existing

\* a skip over a present configuration with zero servers, with an incoming
\* configuration that does not pass validation
C7_Witness ==
    /\ Merged /\ m.strategy = SKIP
    /\ m.existing = Config(<<>>)
    /\ ~validateMCPConfig(m.newConfig)
    /\ m.result = m.existing

-----------------------------------------------------------------------------
(* Properties of the engine, checked under Spec *)

HadConfig(r) == ~IsNull(remote[r].initial)
TotalWrites == remote[1].writes + remote[2].writes

\* C1: under MergeStrategy.SKIP, whatever the API and browser operations answer,
\* a repository that had an MCP configuration receives no MCP write and keeps
\* it; and when the run over repository 1 (no configuration) and repository 2
\* (a configuration) ends with both succeeded, exactly one write was made and
\* repository 1 holds the incoming configuration.
C1_SkipNeverWritesExisting ==
    opts.mergeStrategy = SKIP =>
        /\ \A r \in Repos :
              HadConfig(r) => (remote[r].writes = 0 /\ remote[r].mcp = remote[r].initial)
        /\ (phase = "done" /\ repositories = <<1, 2>> /\ summary[1].successful = 2) =>
              /\ summary[1].totalRepositories = 2
              /\ TotalWrites = 1
              /\ StructEq(remote[1].mcp, mcpConfig)

\* the call p of processRepository waits for an answer of the platform
AwaitsPlatform(p) ==
    pipe[p].pc \in {"ApiRead", "ApiUpdate", "UiRead", "UiUpdate", "Secrets", "Variables"}

\* C2: an error in one repository's pipeline is recorded in that repository's
\* result and nothing else: no pipeline failure aborts the run, the batch loop
\* always goes on once no call waits for the platform, and when the batches are over
\* every discovered repository has its result, in order.
C2_FailureIsolation ==
    /\ \A p \in DOMAIN pipe :
          pipe[p].pc = "Returned" => (pipe[p].success <=> pipe[p].error = NULL)
    /\ phase = "threw" => \A p \in DOMAIN pipe : pipe[p].pc = "Pending"
    /\ (phase = "processing" /\ \A p \in DOMAIN pipe : ~AwaitsPlatform(p)) =>
          ENABLED (StartBatch \/ CollectBatch)
    /\ phase = "processing" =>
          /\ Len(results) = batchStart
          /\ \A p \in 1..batchStart : pipe[p].pc = "Returned" /\ results[p] = ResultOf(p)
    /\ (phase \in {"cleanup", "done"} /\ ~opts.dryRun) =>
          /\ Len(results) = Len(repositories)
          /\ \A p \in DOMAIN repositories :
                pipe[p].pc = "Returned" /\ results[p] = ResultOf(p)
    /\ (phase = "done" /\ ~opts.dryRun) =>
          /\ summary[1].totalRepositories = Len(repositories)
          /\ summary[1].successful + summary[1].failed = Len(repositories)

\* a finished run of two batches of one repository: the first failed, the second succeeded
C2_Witness ==
    /\ phase = "done" /\ opts.concurrency = 1 /\ Len(results) = 2
    /\ ~results[1].success /\ results[1].error # NULL
    /\ results[2].success
    /\ summary[1].failed = 1 /\ summary[1].successful = 1

\* C8: no MCP write, API update or UI write, is issued when the merged
\* configuration is structurally equal, key order aside, to the existing
\* configuration that was read.
C8_NoWriteWhenStructurallyEqual ==
    \A p \in DOMAIN pipe :
        pipe[p].pc \in {"ApiUpdate", "UiUpdate"} =>
            ~StructEq(pipe[p].existingConfig, pipe[p].finalConfig)

\* C9: in a dry run nothing is written (no MCP configuration, secret or
\* variable), no repository pipeline and no browser step runs, and the run ends
\* after the preview with the summary of no results.
C9_DryRunChangesNothing ==
    /\ opts.dryRun =>
        /\ \A r \in PlatformRepos : remote[r] = RemoteInit(StoredAt(r))
        /\ browser = BrowserInit
        /\ \A p \in DOMAIN pipe : pipe[p] = PipeInit
        /\ results = <<>> /\ batchStart = 0
        /\ phase \in {"parse", "discover", "dryRunPreview", "done", "threw"}
        /\ phase = "done" => summary = <<createSummary(<<>>)>>
    /\ win.dryRun =>
        /\ win.autoIt = 0
        /\ win.failCount = 0
        /\ (win.phase = "exited" /\ win.repos > 0) =>
              (win.successCount = win.repos /\ win.exitCode = 0)

\* a dry run over two repositories that ended after the preview
C9_Witness ==
    /\ opts.dryRun /\ phase = "done"
    /\ Len(repositories) = 2
    /\ summary # <<>>

\* C10: when the API-only switch is off, a repository whose API read ran out of
\* endpoint combinations is not configured through the API: the exhaustion is
\* not taken for an absent configuration, and the MCP read, merge and write are
\* made through the UI.
C10_ApiUnavailableFallsBackToUi ==
    \A p \in DOMAIN pipe :
        (~opts.apiOnly /\ pipe[p].apiReadExhausted) => pipe[p].mcpBy # "api"

\* errors of a pipeline that the retry policy counts as transient: a failed
\* navigation, a field or save button that was not found, an unconfirmed save
TransientErrors == {"navigation failed", "Could not find MCP configuration field",
                    "Could not find save button for MCP configuration",
                    "Failed to save MCP config"}

\* C11: a pipeline is recorded as failed with a transient error only after it
\* was restarted from Pending and attempted again (engine), no repository is
\* attempted more often than the configured maximum (-MaxRetries of the
\* Windows script), and the script counts a failure only at the last attempt.
C11_TransientFailureIsRetried ==
    /\ \A p \in DOMAIN pipe :
          (pipe[p].pc = "Returned" /\ pipe[p].error \in TransientErrors) =>
              pipe[p].attempts > 1
    /\ win.autoIt <= win.maxRetries * win.repos
    /\ win.failCount > 0 => win.maxRetries > 0

\* ceil(a / b) for b >= 1
CeilDiv(a, b) == (a + b - 1) \div b

\* the positions of `repositories` that hold repository r
PositionsOf(r) == {p \in DOMAIN repositories : repositories[p] = r}

\* C12: in an apply run over n resolved repositories with batch size N, every
\* batch starts at a multiple of N and holds N positions, the last one the
\* rest; when the loop is over ceil(n/N) batches were run; every position was
\* started exactly once; and every resolved repository is at one position
\* only, so that it belongs to one batch and is processed once.
C12_BatchesPartitionRepositories ==
    (phase \in {"processing", "cleanup", "done"} /\ ~opts.dryRun /\ repositories # <<>>) =>
        LET n == Len(repositories)
            N == opts.concurrency
        IN  /\ batchStart % N = 0
            /\ batchStart < n =>
                  Cardinality(Batch(batchStart)) = IF batchStart + N <= n THEN N
                                                   ELSE n - batchStart
            /\ phase \in {"cleanup", "done"} => batchStart \div N = CeilDiv(n, N)
            /\ \A p \in DOMAIN pipe :
                  /\ pipe[p].attempts = IF pipe[p].pc = "Pending" THEN 0 ELSE 1
                  /\ phase \in {"cleanup", "done"} => pipe[p].attempts = 1
            /\ \A p \in DOMAIN repositories : PositionsOf(repositories[p]) = {p}

\* the calls of processRepository that were started and have not returned
InProgress == {p \in DOMAIN pipe : pipe[p].pc \notin {"Pending", "Returned"}}

\* C13: at every moment of a run the number of processRepository calls in
\* progress is at most the configured concurrency, and they all belong to the
\* current batch.
C13_AtMostConcurrencyInProgress ==
    /\ Cardinality(InProgress) <= opts.concurrency
    /\ InProgress \subseteq Batch(batchStart)

\* two calls in progress under concurrency 2 while a third repository waits
C13_Witness ==
    /\ opts.concurrency = 2
    /\ Cardinality(InProgress) = 2
    /\ \E p \in DOMAIN pipe : pipe[p].pc = "Pending"

\* the batch (counted from 0) that position p belongs to
BatchOf(p) == (p - 1) \div opts.concurrency

\* C14: the batches run one after the other in the order of resolution: a call
\* of a batch is started only when every call of every earlier batch has
\* returned, and the results are collected in the order of the repositories.
C14_BatchesAreSequential ==
    /\ \A p, q \in DOMAIN pipe :
          (BatchOf(p) < BatchOf(q) /\ pipe[q].pc # "Pending") => pipe[p].pc = "Returned"
    /\ Len(results) <= Len(repositories)
    /\ \A k \in DOMAIN results : results[k] = ResultOf(k)

\* the second batch is in progress after the two calls of the first returned
C14_Witness ==
    /\ opts.concurrency = 2 /\ Len(repositories) = 3
    /\ pipe[3].pc \in {"ApiRead", "ApiUpdate"}
    /\ pipe[1].pc = "Returned" /\ pipe[2].pc = "Returned"
    /\ Len(results) = 2

\* the results, and the entries of the summary's error list, of repository r
ResultsOf(r) == {k \in DOMAIN results : results[k].repository = r}
ErrorsOf(r) == {k \in DOMAIN summary[1].errors : summary[1].errors[k].repository = r}

\* C15: when an apply run has completed, every resolved repository has exactly
\* one OperationResult; the summary's total is the number of resolved
\* repositories and successful + failed = total; and the error list has
\* exactly one entry, with the result's error message, for every failed
\* repository and none for a succeeded one.
C15_OneResultPerRepository ==
    (phase = "done" /\ ~opts.dryRun) =>
        /\ Len(results) = Len(repositories)
        /\ summary[1].totalRepositories = Len(repositories)
        /\ summary[1].successful + summary[1].failed = summary[1].totalRepositories
        /\ \A p \in DOMAIN repositories :
              LET r == repositories[p]
              IN  /\ Cardinality(ResultsOf(r)) = 1
                  /\ \A k \in ResultsOf(r) :
                        IF results[k].success THEN ErrorsOf(r) = {}
                        ELSE /\ Cardinality(ErrorsOf(r)) = 1
                             /\ \A e \in ErrorsOf(r) :
                                   summary[1].errors[e].error = results[k].error

\* C16: the configure command exits with code 0 exactly when the engine
\* returned its summary (validation passed, nothing aborted the run) and every
\* result is a success, and with code 1 otherwise: a rejected command line, a
\* configuration or authentication error, or a failed repository. The Windows
\* script exits with 0 exactly when it processed repositories and none failed.
C16_ExitCodeReflectsOutcome ==
    /\ cli.pc = "exited" =>
          /\ cli.exitCode \in {0, 1}
          /\ cli.exitCode = 0 <=>
                (phase = "done" /\ \A k \in DOMAIN results : results[k].success)
    /\ win.phase = "exited" =>
          /\ win.exitCode \in {0, 1}
          /\ win.exitCode = 0 <=> (win.repos > 0 /\ win.failCount = 0)

\* the command exited with 1 after a run in which one of two repositories failed
C16_Witness ==
    /\ cli.pc = "exited" /\ cli.exitCode = 1
    /\ phase = "done" /\ Len(results) = 2
    /\ \E k \in DOMAIN results : results[k].success
    /\ \E k \in DOMAIN results : ~results[k].success

\* C17: when the MCP file that was read holds an http server without url or a
\* local server without command, configure throws during parsing and nothing
\* else happened or happens: no repository was listed or viewed, no call of
\* processRepository was made, nothing was written, no secret or variable was
\* set, the browser was not started, and the command exits with 1.
C17_InvalidMcpRejectedPreFlight ==
    mcpConfig \in {cfgInvalid, cfgInvalidLocal} =>
        /\ phase = "threw"
        /\ listed = FALSE
        /\ repositories = <<>> /\ pipe = <<>> /\ results = <<>> /\ summary = <<>>
        /\ \A r \in PlatformRepos : remote[r] = RemoteInit(StoredAt(r))
        /\ browser = BrowserInit
        /\ cli.pc = "exited" => cli.exitCode = 1

\* the command has exited after the file with a local server without command was rejected
C17_Witness ==
    /\ mcpConfig = cfgInvalidLocal
    /\ phase = "threw"
    /\ cli.pc = "exited"

\* the policies that the flags f name: --skip-existing, --merge (alone or with
\* --overwrite-existing) and --force-overwrite
PoliciesNamed(f) ==
    (IF f.skipExisting THEN {SKIP} ELSE {}) \cup
    (IF f.merge /\ ~f.mergeOverwrite THEN {MERGE} ELSE {}) \cup
    (IF f.merge /\ f.mergeOverwrite THEN {MERGE_OVERWRITE} ELSE {}) \cup
    (IF f.forceOverwrite THEN {FORCE_OVERWRITE} ELSE {})

\* C18: a command line whose flags name more than one policy, or
\* --overwrite-existing without --merge, is rejected with exit code 1 before the
\* engine runs (nothing parsed, listed or resolved); an accepted command line
\* names at most one policy, which is the one the engine resolves, and no flag
\* resolves to SKIP.
C18_ExclusiveFlagsRejected ==
    LET f == cli.flags
    IN  /\ (Cardinality(PoliciesNamed(f)) > 1 \/ (f.mergeOverwrite /\ ~f.merge)) =>
              /\ cli.pc = "exited" /\ cli.exitCode = 1
              /\ phase = "idle" /\ listed = FALSE /\ repositories = <<>>
        /\ (cli.pc = "engine" /\ phase = "parse") =>
              /\ determineMergeStrategy(f) \in MergeStrategy
              /\ PoliciesNamed(f) \subseteq {determineMergeStrategy(f)}
              /\ f = NoFlags => determineMergeStrategy(f) = SKIP

\* C19: every repository the selector returned, from an explicit list or from
\* the listing under any filter set, is administered by the viewer; and the
\* repository that the viewer cannot administer never receives an MCP write, a
\* secret or a variable.
C19_OnlyAdminRepositories ==
    /\ \A p \in DOMAIN repositories : viewerCanAdminister(repositories[p])
    /\ \A r \in PlatformRepos :
          ~viewerCanAdminister(r) => remote[r] = RemoteInit(StoredAt(r))

\* an apply run over a list that names the repository without admin access
\* has ended, and wrote to the administered repository of the list
C19_Witness ==
    /\ repoConfig = ListConfig(<<1, 1, 0>>)
    /\ repositories = <<1, 1>>
    /\ phase = "done" /\ ~opts.dryRun
    /\ remote[1].writes > 0

\* C20: the selector returns no repository twice: the list <<1, 1, 0>>, whose
\* last entry lacks admin access, resolves to <<1>>; and no repository has two
\* calls of processRepository in a run.
C20_RepeatedEntriesResolvedOnce ==
    /\ \A p, q \in DOMAIN repositories : repositories[p] = repositories[q] => p = q
    /\ (repoConfig = ListConfig(<<1, 1, 0>>) /\ phase \notin {"discover", "threw"}) =>
          repositories = <<1>>
    /\ \A p, q \in DOMAIN pipe :
          (repositories[p] = repositories[q] /\ pipe[p].attempts > 0 /\ pipe[q].attempts > 0) =>
              p = q

\* C21: a run that threw (no credential, browser launch or up-front browser
\* authentication failed, or an earlier pre-flight error) started no pipeline,
\* recorded no result, left every repository of the platform as it was and
\* exits with code 1; and pipelines of a run with UI automation start only
\* after the browser session was authenticated.
C21_AuthFailureAbortsRun ==
    /\ phase = "threw" =>
          /\ \A p \in DOMAIN pipe : pipe[p] = PipeInit
          /\ results = <<>>
          /\ \A r \in PlatformRepos : remote[r] = RemoteInit(StoredAt(r))
          /\ cli.pc = "exited" => cli.exitCode = 1
    /\ \A p \in DOMAIN pipe :
          pipe[p].attempts > 0 => (opts.apiOnly \/ browser.isAuthenticated)

\* the up-front browser authentication failed over a discovered apply list,
\* and the command has exited
C21_Witness ==
    /\ phase = "threw" /\ cli.pc = "exited"
    /\ repositories # <<>> /\ ~opts.dryRun /\ ~opts.apiOnly
    /\ browser.live = 1 /\ browser.context /\ ~browser.isAuthenticated

\* the engine's part of C22: a pipeline whose settings page showed the
\* access-denied marker has returned a failed result after its only call, with
\* no MCP change from UI automation and no secret or variable recorded
C22_EngineFailsFast ==
    \A p \in DOMAIN pipe :
        pipe[p].error = "No access to repository settings" =>
            /\ pipe[p].pc = "Returned" /\ ~pipe[p].success
            /\ pipe[p].attempts = 1
            /\ pipe[p].mcpBy # "ui"
            /\ pipe[p].changesSecrets = Unset /\ pipe[p].changesVariables = Unset

\* the Windows script's part of C22: after the AutoIt process ended on the
\* page-not-found marker the script is at a first attempt (it moved on)
C22_ScriptNeverRetries ==
    win.lastExit = ExitPageNotFound => win.attempt = 1

\* C22: a repository whose settings page shows the access-denied marker fails
\* at once with a permission error, nothing is typed or saved on that page,
\* and the repository is not attempted again, in the engine and in the
\* Windows script.
C22_AccessDeniedFailsFast ==
    C22_EngineFailsFast /\ C22_ScriptNeverRetries

\* a step keeps what the platform holds: no secret and no variable disappears,
\* and the stored MCP configuration changes only by a further write
KeepsApplied ==
    \A r \in PlatformRepos :
        /\ remote[r].secrets \subseteq remote'[r].secrets
        /\ remote[r].variables \subseteq remote'[r].variables
        /\ remote'[r].writes >= remote[r].writes
        /\ remote'[r].writes = remote[r].writes => remote'[r].mcp = remote[r].mcp

\* C23: a repository whose pipeline failed at any step, also after its MCP
\* write or some of its secrets were applied, is reported as failed, and no
\* step of the run removes a secret or a variable or restores a stored MCP
\* configuration: what was applied stays applied.
C23_NoPartialRollback ==
    /\ [](\A p \in DOMAIN pipe : pipe[p].error # NULL => ~pipe[p].success)
    /\ [](\A k \in DOMAIN results : results[k].error # NULL => ~results[k].success)
    /\ [][KeepsApplied]_vars

\* a pipeline wrote the MCP configuration and set a secret of its repository,
\* and a later secret or variable call failed
C23_Witness ==
    \E p \in DOMAIN pipe :
        /\ pipe[p].pc = "Returned" /\ ~pipe[p].success
        /\ pipe[p].error \in {"Failed to set secret", "Failed to set variable"}
        /\ pipe[p].mcpBy # NULL
        /\ remote[repositories[p]].writes > 0
        /\ remote[repositories[p]].secrets # {}

\* C24: in API-only mode the browser automator stays as constructed (never
\* launched, authenticated or used), no pipeline is at a UI-automation step or
\* has an MCP result from UI automation, and a pipeline that returned without
\* an MCP result from the API failed with the API-only error.
C24_ApiOnlyNeverUsesBrowser ==
    opts.apiOnly =>
        /\ browser = BrowserInit
        /\ \A p \in DOMAIN pipe :
              /\ pipe[p].pc \notin {"UiRead", "UiUpdate"}
              /\ pipe[p].mcpBy # "ui"
              /\ (pipe[p].pc = "Returned" /\ pipe[p].mcpBy = NULL) =>
                    /\ ~pipe[p].success
                    /\ pipe[p].error = "API-only mode enabled but API configuration failed"

\* an API-only run has ended with a repository whose API update was exhausted
C24_Witness ==
    /\ opts.apiOnly /\ phase = "done"
    /\ \E k \in DOMAIN results :
          /\ ~results[k].success
          /\ results[k].error = "API-only mode enabled but API configuration failed"

\* the place of a step in processRepository
StepRank(pc) ==
    CASE pc = "Pending" -> 0
      [] pc = "ApiRead" -> 1
      [] pc = "ApiUpdate" -> 2
      [] pc = "UiRead" -> 3
      [] pc = "UiUpdate" -> 4
      [] pc = "Secrets" -> 5
      [] pc = "Variables" -> 6
      [] OTHER -> 7

\* what holds at each step of a pipeline: a write follows a completed read and
\* merge, the secrets follow a successful MCP step, the variables follow the
\* last secret, and a failed MCP step leaves no secret or variable recorded
StepsInOrder ==
    \A p \in DOMAIN pipe :
        LET q == pipe[p]
        IN  /\ q.pc = "ApiUpdate" =>
                  q.finalConfig = apiMergeMCPConfig(q.existingConfig, mcpConfig, opts.mergeStrategy)
            /\ q.pc = "UiUpdate" =>
                  q.finalConfig = mergeMCPConfig(q.existingConfig, mcpConfig, opts.mergeStrategy)
            /\ q.pc \in {"Secrets", "Variables"} => q.mcpBy # NULL
            /\ q.pc = "Secrets" =>
                  /\ q.secretsAdded = SubSeq(secretsConfig.secrets, 1, q.idx - 1)
                  /\ q.variablesAdded = <<>>
            /\ q.pc = "Variables" =>
                  /\ q.secretsAdded = secretsConfig.secrets
                  /\ q.changesSecrets = Added(secretsConfig.secrets)
            /\ (q.pc = "Returned" /\ q.mcpBy = NULL) =>
                  /\ ~q.success
                  /\ q.changesSecrets = Unset /\ q.changesVariables = Unset

\* what a step may do: a pipeline never goes back, and the platform changes
\* only by the write, secret or variable step of a pipeline of that repository
StepKeepsOrder ==
    /\ \A p \in DOMAIN pipe \cap DOMAIN pipe' :
          StepRank(pipe'[p].pc) >= StepRank(pipe[p].pc)
    /\ \A r \in PlatformRepos :
          /\ remote'[r].writes # remote[r].writes =>
                \E p \in DOMAIN pipe : /\ repositories[p] = r
                                        /\ pipe[p].pc \in {"ApiUpdate", "UiUpdate"}
                                        /\ pipe'[p].mcpBy # NULL
          /\ remote'[r].secrets # remote[r].secrets =>
                \E p \in DOMAIN pipe : /\ repositories[p] = r
                                        /\ pipe[p].pc = "Secrets"
                                        /\ pipe[p].mcpBy # NULL
          /\ remote'[r].variables # remote[r].variables =>
                \E p \in DOMAIN pipe : /\ repositories[p] = r
                                        /\ pipe[p].pc = "Variables"
                                        /\ pipe[p].changesSecrets.set

\* C25: within one pipeline the steps run in the order read, merge, write,
\* secrets, variables: a write follows the read and merge, a secret is set
\* only after the MCP step succeeded, a variable only after every secret was
\* set, and a failed MCP step is followed by no secret and no variable.
C25_PipelineStepsInOrder ==
    []StepsInOrder /\ [][StepKeepsOrder]_vars

\* a pipeline went through every step: it wrote the configuration, set a
\* secret and a variable, and returned with success
C25_Witness ==
    \E p \in DOMAIN pipe :
        /\ pipe[p].pc = "Returned" /\ pipe[p].success
        /\ remote[repositories[p]].writes > 0
        /\ pipe[p].changesSecrets.added # <<>>
        /\ pipe[p].changesVariables.added # <<>>

\* the names in a recorded list; a list that was never assigned holds no name
NamesIn(change) == {change.added[k] : k \in DOMAIN change.added}

\* C26: the secret names and variable names recorded in the result of a
\* repository that one pipeline processed are the secrets and variables that
\* were set on that repository during the run, also when a later call failed.
C26_RecordedNamesAreThoseSet ==
    \A p \in DOMAIN pipe :
        (/\ pipe[p].pc = "Returned"
         /\ \A o \in DOMAIN pipe : repositories[o] = repositories[p] => o = p) =>
            /\ NamesIn(pipe[p].changesSecrets) = remote[repositories[p]].secrets
            /\ NamesIn(pipe[p].changesVariables) = remote[repositories[p]].variables

\* a pipeline that is at a step of UI automation
AtUiStep(p) == pipe[p].pc \in {"UiRead", "UiUpdate"}

EntersUi(p) == pipe[p].pc # "UiRead" /\ pipe'[p].pc = "UiRead"

\* the engine authenticates the browser session again in this step
ReAuthenticates == browser'.auths = browser.auths + 1 /\ ~browser'.sessionLost

\* C28: in a run with UI automation the browser session is authenticated
\* before the first pipeline starts and once only while the session lasts;
\* and a pipeline that turns to UI automation after the session was lost
\* finds the engine re-authenticating first.
C28_ReAuthenticatesWhenLost ==
    /\ [](\A p \in DOMAIN pipe :
            (pipe[p].attempts > 0 /\ ~opts.apiOnly) =>
                /\ browser.auths >= 1
                /\ ~browser.sessionLost => browser.auths = 1)
    /\ [][\A p \in DOMAIN pipe \cap DOMAIN pipe' :
            (browser.sessionLost /\ EntersUi(p)) => ReAuthenticates]_vars

\* the API probing keeps to its order: a pipeline that stays in a probing loop
\* is at the next combination, the read gives up only at its last combination,
\* and the update throws (the catch (apiError) block runs: an error, or the
\* turn to UI automation) only at its last combination
ProbingGoesOn ==
    \A p \in DOMAIN pipe \cap DOMAIN pipe' :
        LET q == pipe[p]
            n == pipe'[p]
        IN  /\ (q.pc = "ApiRead" /\ n # q) =>
                  \/ n.pc = "ApiRead" /\ n.idx = q.idx + 1 /\ q.idx < ReadCombos
                  \/ n.pc # "ApiRead" /\ n.error = NULL /\ ~n.apiReadExhausted
                  \/ n.pc = "ApiUpdate" /\ n.apiReadExhausted /\ q.idx = ReadCombos
            /\ (q.pc = "ApiUpdate" /\ n # q) =>
                  \/ n.pc = "ApiUpdate" /\ n.idx = q.idx + 1 /\ q.idx < UpdateCombos
                  \/ /\ n.mcpBy = "api"
                     /\ remote'[repositories[p]].writes = remote[repositories[p]].writes + 1
                  \/ /\ n.mcpBy = NULL /\ q.idx = UpdateCombos
                     /\ n.pc = "UiRead" \/ n.error # NULL

\* C29: in the API read and the API update a failed attempt (404, 403, another
\* status, a thrown request) leads to the next combination of the fixed order;
\* the first successful attempt ends the probing; the read returns no
\* configuration, and the update throws, only after the last combination.
C29_ProbingTriesEveryCombination ==
    /\ [](\A p \in DOMAIN pipe :
            /\ pipe[p].pc = "ApiRead" => pipe[p].idx \in 1..ReadCombos
            /\ pipe[p].pc = "ApiUpdate" => pipe[p].idx \in 1..UpdateCombos)
    /\ [][ProbingGoesOn]_vars

\* a pipeline whose read was exhausted is at the last combination of the
\* update, every earlier combination having failed
C29_Witness ==
    \E p \in DOMAIN pipe :
        /\ pipe[p].pc = "ApiUpdate" /\ pipe[p].idx = UpdateCombos
        /\ pipe[p].apiReadExhausted

\* C30: a repository that one pipeline processes and whose configuration field
\* was read by UI automation and holds text that is not JSON: the pipeline has
\* returned a failed result with the parse error, no UI write was made for it
\* and the repository has received no MCP write; the text is still there.
C30_NotJsonIsAnError ==
    \A p \in DOMAIN pipe :
        (/\ remote[repositories[p]].text = "not JSON"
         /\ \A o \in DOMAIN pipe : repositories[o] = repositories[p] => o = p) =>
            /\ pipe[p].pc = "Returned" /\ ~pipe[p].success
            /\ pipe[p].error = "MCP config is not valid JSON"
            /\ pipe[p].mcpBy = NULL
            /\ remote[repositories[p]].writes = 0

\* a run has ended in which UI automation read text that is not JSON from the
\* field of a repository, and the result of that repository is in the summary
C30_Witness ==
    /\ phase = "done"
    /\ \E k \in DOMAIN results :
          /\ results[k].error = "MCP config is not valid JSON"
          /\ remote[results[k].repository].text = "not JSON"
          /\ summary[1].failed > 0

-----------------------------------------------------------------------------
(* C31: the report of a UI-automation write *)

\* the errors of a page operation before it looks for the field
PageErrors == (PageOutcomes \ {"loaded"}) \cup
              {"Browser not initialized", "Target page, context or browser has been closed"}

\* updateMCPConfig of the BrowserAutomator on a loaded page returns exactly
\* when the field was visible, a save candidate was visible and clicked, and no
\* element of the error selector was visible afterwards; it throws the error
\* of the first of the three that fails
C31_BrowserWriteReport ==
    (ui.pc \in {"written", "read"} /\ ui.report \notin PageErrors) =>
        /\ ui.report = "success" <=> (FieldVisible /\ ui.save # "none" /\ ~ui.banner)
        /\ ~FieldVisible => ui.report = "Could not find MCP configuration field"
        /\ (FieldVisible /\ ui.save = "none") =>
               ui.report = "Could not find save button for MCP configuration"
        /\ (FieldVisible /\ ui.save # "none" /\ ui.banner) =>
               ui.report = "Failed to save MCP config"

\* the AutoIt script that pasted a configuration exits with 0 exactly when
\* Enter reached a save control and no error is shown afterwards
C31_AutoItWriteReport ==
    (au.pc = "exited" /\ au.typed) =>
        (au.exitCode = 0 <=> (au.saveTarget /\ ~au.banner))

\* C31: a UI-automation write reports success exactly when the configuration
\* field was located, a save target was found and activated, and no error
\* banner is visible afterwards; it reports an error when the field is missing,
\* when every save target is missing, or when an error banner is visible
C31_WriteReportsSuccessExactly ==
    /\ C31_BrowserWriteReport
    /\ C31_AutoItWriteReport

\* a BrowserAutomator write that reported success although the platform did
\* not store the written configuration
C31_SuccessWithoutStore ==
    /\ ui.pc = "written"
    /\ ui.report = "success"
    /\ ui.text # Stringify(ui.newConfig)

-----------------------------------------------------------------------------
(* C32: write, then read, through the UI channel *)

\* a write that reported success was followed by a read that returned
WrittenThenRead ==
    /\ ui.pc = "read"
    /\ ui.report = "success"
    /\ ui.readReport = "returned"

-----------------------------------------------------------------------------
(* C33: the order of the locator's strategies *)

\* the locator has started
LocatorRan == au.pc \in {"locating", "located", "not found", "exited"} /\ au.strategy > 0

\* C33: the locator runs its five strategies in the order search-shortcut,
\* sequential-tab, multi-term search, alternate-shortcut, scroll-and-tab: a
\* strategy has made a check only if every earlier one made all its checks, no
\* check follows a positive classification, the locator succeeds at the first
\* positive one and fails only after every strategy made all its checks
C33_StrategiesInFixedOrder ==
    LocatorRan =>
        /\ \A s \in DOMAIN Strategies :
              au.ran[s] > 0 =>
                  \A t \in 1..(s - 1) : au.ran[t] = Steps(t, au.tabAttempts)
        /\ au.positives <= 1
        /\ au.positives = 1 =>
              /\ au.pc \in {"located", "exited"}
              /\ au.ran[au.strategy] > 0
              /\ \A t \in DOMAIN Strategies : t > au.strategy => au.ran[t] = 0
        /\ (au.positives = 0 /\ au.pc # "locating") =>
              \A t \in DOMAIN Strategies : au.ran[t] = Steps(t, au.tabAttempts)

\* the multi-term search strategy classified positively after the first two
\* strategies made all their checks
C33_Witness ==
    /\ au.pc = "located"
    /\ au.strategy = 3
    /\ au.positives = 1
    /\ au.ran[1] = 1 /\ au.ran[2] = au.tabAttempts

-----------------------------------------------------------------------------
(* C34: the locator terminates *)

\* the most checks the locator makes with the given tab-attempts parameter
MostChecks(tabAttempts) ==
    1 + tabAttempts + SearchTerms * (SearchTabs + SearchTabs) +
    Shortcuts * ShortcutTries + Scrolls * ScrollTabs

\* every focus step of a strategy is followed by one check (a check itself
\* steps back and forth at most twice), so the checks bound the focus steps:
\* the sequential-tab strategy makes at most the configured number of them;
\* a locator without a positive classification ends in Exit(1) with nothing
\* cleared, pasted or saved on the page
C34_Bounded ==
    /\ au.ran[2] <= au.tabAttempts
    /\ au.checks <= MostChecks(au.tabAttempts)
    /\ au.checks = au.ran[1] + au.ran[2] + au.ran[3] + au.ran[4] + au.ran[5]
    /\ (LocatorRan /\ au.positives = 0) =>
          /\ ~au.cleared /\ ~au.typed /\ ~au.saveSent
          /\ au.pc = "exited" => au.exitCode = 1

-----------------------------------------------------------------------------
(* C35: the content classifier *)

\* the text is a JSON object, or looks like one, within the size range
JsonObjectInRange(content) ==
    \/ content.braces /\ content.len > MinBracesLen /\ content.len < MaxBracesLen
    \/ CheckFieldForJsonStructure(content)

\* the classifier as described: a structural token, or a JSON object in the
\* size range, or an empty text after an element whose text has a label keyword
DescribedClassifier(content, previous) ==
    \/ content.indicator
    \/ JsonObjectInRange(content)
    \/ content.len = 0 /\ previous.label

\* C35: the content classifier is positive if and only if the focused text has
\* a known structural token, or is a JSON object within the plausible size
\* range, or is empty while the text of the preceding focusable element has a
\* label-like keyword; the label keyword counts only for an empty field
C35_ClassifierAsDescribed ==
    (au.pc \in {"locating", "located", "not found"} /\ au.checks > 0) =>
        (au.positive <=>
            DescribedClassifier(au.page[au.focus],
                                au.page[ShiftTabFrom(au.focus, Len(au.page))]))

-----------------------------------------------------------------------------
(* C36: a failed switch to headless mode *)

\* the automator's interactive login was followed by a switch that failed
SwitchFailed == ui.pc # "auth" /\ ui.switch \in SwitchFailures

\* C36: if switching from the visible browser to headless mode fails at any
\* point, the automator still holds an open context with the cookies of the
\* login, and a later page operation does not fail for want of a context or a
\* session; after a switch that succeeded the new context holds exactly the
\* cookies of the old one
C36_FailedSwitchKeepsVisibleBrowser ==
    /\ SwitchFailed =>
          /\ browser.context /\ browser.live = 1
          /\ ui.cookies = ui.oldCookies
          /\ ~browser.sessionLost
          /\ ui.report \notin {"Browser not initialized",
                               "Target page, context or browser has been closed"}
    /\ (ui.pc # "auth" /\ ui.switch = "switched") =>
          /\ browser.context /\ browser.live = 1
          /\ ui.cookies = ui.oldCookies

\* the part of C36 that holds: a switch that succeeded, or that failed before
\* the visible context was closed, leaves an open context with the old cookies
C36_SwitchKeepsCookies ==
    (ui.pc # "auth" /\ ui.switch \in {"switched", "cookies failed"}) =>
        /\ browser.context /\ browser.live = 1
        /\ ui.cookies = ui.oldCookies

-----------------------------------------------------------------------------
(* C37: applying the same configuration again *)

\* the second run read the configuration the first run left
Reapplied == m.pc = "rerun" /\ m.readBack = "stored"

\* the part of C37 that holds: merge(merge(e, i, p), i, p) = merge(e, i, p) for
\* both mergers, and a second run that reads the stored configuration back
\* calls no updateMCPConfig
C37_MergeIdempotent ==
    Reapplied => (m.twice = m.result /\ ~m.rewrite)

\* C37: re-application is a no-op: merging the incoming configuration into the
\* result of the merge gives that result again, for every policy and every
\* existing configuration, present or absent; hence a second run with the same
\* inputs after a successful run issues no MCP write
C37_ReapplicationIsNoOp ==
    /\ C37_MergeIdempotent
    /\ m.pc = "rerun" => ~m.rewrite

-----------------------------------------------------------------------------
(* C38: the browsers of a run at its end *)

\* configure returned a summary or threw
RunEnded == phase \in {"done", "threw"}

\* the part of C38 that holds: when configure returns after the cleanup of a
\* browser it still holds, no browser instance and no context is left
C38_ClosedWhenCleanedUp ==
    (phase = "done" /\ ~browser.stale) => (browser.live = 0 /\ ~browser.context)

\* C38: every browser instance and context launched during a run is closed
\* before the run ends, whether configure returns a summary or throws
C38_BrowsersClosedAtRunEnd ==
    RunEnded => (browser.live = 0 /\ ~browser.context)

====
